---- MODULE Spec2Model ----
(***************************************************************************)
(* The spreadsheet import pipeline (importContacts) and the bulk export    *)
(* pipeline (exportAllData) of the IR CRM, as state machines.  An async    *)
(* function is modelled by one action per stretch of code between two      *)
(* awaits: the call itself up to its first await, and one action for each  *)
(* reply of the storage collaborator, which runs the continuation up to    *)
(* the next await or to the return.                                        *)
(*                                                                         *)
(* Strings that the code inspects character by character (contact names,   *)
(* file names) are sequences of code points; message templates are tuples  *)
(* of their literal and interpolated parts.                                *)
(***************************************************************************)
EXTENDS Integers, Sequences, FiniteSets, Bags, TLC

VARIABLES
  ipc,            \* importContacts: "idle", "start", "getUser", "insert", "done"
  contacts,       \* importContacts: the contacts argument
  onProgress,     \* TRUE when the caller passed a progress callback
  user,           \* importContacts: the user returned by auth.getUser()
  validContacts,  \* importContacts: contacts.filter(c => c.name.trim())
  i,              \* importContacts: loop variable of the batch loop
  result,         \* importContacts: the ImportResult accumulator / return value
  replies,        \* the error field of every insert reply, in order of arrival
  storedContacts, \* the rows of the contacts table, in order of insertion
  storedBefore,   \* the rows of the contacts table when importContacts is called
  calls,          \* calls made on the collaborators (callback, storage), in order
  inflight,       \* storage requests issued and not yet settled
  xpc,            \* exportAllData: "idle", "start", "contacts", "attachments",
                  \*   "download", "generate", "done", "failed"
  dbContacts,     \* the contacts table as `select * order by name` returns it
  dbAttachments,  \* the attachments table as `select * order by created_at` returns it
  contactsWithAttachments,  \* exportAllData: the contacts, each with its attachments
  xi,             \* exportAllData: loop variable i (contact)
  xj,             \* exportAllData: loop variable j (attachment of the contact)
  zip,            \* exportAllData: the JSZip archive under construction
  saved,          \* the file handed to saveAs, or Null
  exportError,    \* the error exportAllData rejects with, or Null
  downloads,      \* the path and outcome of every settled download, in order
  mpc,            \* the mapper: "idle", "column", "resolved", "value",
                  \*   "priority", "date", "rows", "mapped"
  header,         \* the column mapper: a header as the sheet writes it
  baseHeader,     \* the column mapper: the header that `header` is a variant of
  cellValue,      \* the value normalizers: the value argument
  timeZone,       \* the local time zone, in minutes east of UTC
  sheetRows,      \* mapToContacts: the rawData argument
  sheetName,      \* mapToContacts: the sourceSheet argument, or empty
  out,            \* the value returned by the function applied
  step,           \* ExcelImport: 'upload', 'select-sheets', 'preview',
                  \*   'importing', 'complete'
  file,           \* ExcelImport: the file selected, or none
  sheets,         \* ExcelImport: the SheetInfo list of the file
  selectedSheets, \* ExcelImport: the names of the sheets ticked, in toggle order
  previewData,    \* ExcelImport: the contacts shown in the preview
  importing,      \* ExcelImport: TRUE while handleImport awaits importContacts
  wizardResult,   \* ExcelImport: the `result` state, or none
  wizardError,    \* ExcelImport: the `error` state, or none
  isOpen,         \* the isOpen prop; the parent's onClose handler clears it
  notified,       \* TRUE once onImportComplete() was called
  awaited,        \* ExcelImport: the promises its handlers are awaiting,
                  \*   each with the values its continuation closed over
  userFiles,      \* the files the user can choose in the file input
  fpc,            \* the contact page: "idle", "getUser", "upload", "insert",
                  \*   "remove", "deleteRow", "removeAll", "deleteContact",
                  \*   "left"
  binaries,       \* the paths of the objects in the bucket 'attachments'
  attachmentRows, \* the rows of the attachments table of the contact
  contactStored,  \* TRUE while the contacts table holds the contact
  listed,         \* the contact page: the `attachments` state
  pendingFiles,   \* FileUpload.handleFileSelect: the files still to upload
  newAttachments, \* FileUpload.handleFileSelect: the rows inserted so far
  deleting,       \* FileUpload.handleDelete: the attachment argument
  nextPath,       \* the number of the next storage path
  uploadError,    \* FileUpload: the `uploadError` state, or none
  policyRows,     \* the rows of contacts, attachments and storage.objects
  granted         \* the last request the policies let through, or none

importVars == <<ipc, contacts, user, validContacts, i, result, replies,
                storedContacts, storedBefore>>

exportVars == <<xpc, dbContacts, dbAttachments, contactsWithAttachments,
                xi, xj, zip, saved, exportError, downloads>>

mapVars == <<mpc, header, baseHeader, cellValue, timeZone, sheetRows,
             sheetName, out>>

wizardVars == <<step, file, sheets, selectedSheets, previewData, importing,
                wizardResult, wizardError, isOpen, notified, awaited,
                userFiles>>

attachVars == <<fpc, binaries, attachmentRows, contactStored, listed,
                pendingFiles, newAttachments, deleting, nextPath,
                uploadError>>

policyVars == <<policyRows, granted>>

vars == <<importVars, exportVars, mapVars, wizardVars, attachVars,
          policyVars, onProgress, calls, inflight>>

----------------------------------------------------------------------------
(* Bounds of the model *)

MaxContacts == 120        \* longest contacts argument explored

MaxExportContacts == 3    \* most rows of the contacts table

MaxAttachments == 3       \* most rows of the attachments table

MaxStored == 3            \* most rows of the contacts table before an import

MaxSheets == 3            \* most sheets of a workbook

MaxUploads == 2           \* most files ever uploaded for the contact

MaxPolicyRows == 2        \* most rows of the tables the policies guard

MaxAwaited == 2           \* most promises ExcelImport awaits at a time

----------------------------------------------------------------------------
(* Values *)

Null == "null"

Min(a, b) == IF a < b THEN a ELSE b

\* Code points that String.prototype.trim removes (WhiteSpace and
\* LineTerminator of ECMAScript).
WhiteSpace ==
  {9, 10, 11, 12, 13, 32, 160, 5760, 8232, 8233, 8239, 8287, 12288, 65279}
    \cup (8192 .. 8202)

Space == 32

RECURSIVE TrimStart(_)
TrimStart(s) ==
  IF s # <<>> /\ Head(s) \in WhiteSpace THEN TrimStart(Tail(s)) ELSE s

RECURSIVE TrimEnd(_)
TrimEnd(s) ==
  IF s # <<>> /\ s[Len(s)] \in WhiteSpace
    THEN TrimEnd(SubSeq(s, 1, Len(s) - 1))
    ELSE s

\* String.prototype.trim
Trim(s) == TrimEnd(TrimStart(s))

\* Array.prototype.slice(from, to): zero-based, end exclusive, clipped.
Slice(s, from, to) == SubSeq(s, from + 1, Min(to, Len(s)))

\* Math.round of the non-negative rational num / den.
Round(num, den) == (2 * num + den) \div (2 * den)

----------------------------------------------------------------------------
(* importContacts *)

batchSize == 50

\* A user is represented by its id.
Users == {"u1"}

ErrorMessages == {"insert failed"}

NotAuthenticatedMsg == <<"Not authenticated">>

NoValidContactsMsg == <<"No valid contacts found (name is required)">>

\* The ImportResult that importContacts starts from.
InitialResult ==
  [success |-> TRUE, imported |-> 0, skipped |-> 0, errors |-> <<>>]

\* A filter that tests the name without trimming it.
HasNameWrong(c) == c.name # <<>>

\* The predicate of contacts.filter: c.name.trim() is truthy.

HasName(c) == Trim(c.name) # <<>>

\* A user check that lets a missing user through.
IsAuthenticatedWrong(u) == TRUE

\* The early return when auth.getUser() yields no user.

IsAuthenticated(u) == u # Null

\* A percent that leaves out the rows of the current batch.
PercentWrong(i0, batchLength, totalContacts) ==
  Round(i0 * 100, totalContacts)

\* Math.round(((i + batch.length) / totalContacts) * 100)

Percent(i0, batchLength, totalContacts) ==
  Round((i0 + batchLength) * 100, totalContacts)

\* `Importing contacts ${i + 1} - ${Math.min(i + batchSize, total)} of ${total}...`
ProgressMessage(i0, totalContacts) ==
  <<"Importing contacts ", i0 + 1, " - ",
    Min(i0 + batchSize, totalContacts), " of ", totalContacts, "...">>

\* A zero-based batch number.
BatchNumberWrong(i0) == i0 \div batchSize

\* Math.floor(i / batchSize) + 1

BatchNumber(i0) == (i0 \div batchSize) + 1

\* `Batch ${Math.floor(i / batchSize) + 1} failed: ${error.message}`
BatchErrorMessage(i0, message) ==
  <<"Batch ", BatchNumber(i0), " failed: ", message>>

\* One element of contactsToInsert.
ContactToInsert(u, contact) ==
  [user_id |-> u,
   name |-> contact.name,
   email |-> contact.email,
   phone |-> contact.phone,
   location |-> contact.location,
   details |-> contact.details,
   institution |-> contact.institution,
   last_interaction_date |-> contact.last_interaction_date,
   priority |-> contact.priority]

ContactsToInsert(u, batch) ==
  [k \in 1 .. Len(batch) |-> ContactToInsert(u, batch[k])]

\* An insert that replaces the stored rows of the same user and name.
InsertUpsert(stored, rows) ==
  LET kept == SelectSeq(stored,
                        LAMBDA s : \A k \in DOMAIN rows :
                                     s.user_id # rows[k].user_id
                                       \/ s.name # rows[k].name)
  IN  kept \o [k \in 1 .. Len(rows) |->
                 [id |-> Len(stored) + k] @@ rows[k]]

\* supabase.from('contacts').insert(rows) when it succeeds: the rows are
\* added, each under an id of its own, to the rows the table holds.
Insert(stored, rows) ==
  stored \o [k \in 1 .. Len(rows) |-> [id |-> Len(stored) + k] @@ rows[k]]

\* The branches on the insert reply.
OnInsertError(res, i0, batch, message) ==
  [res EXCEPT !.errors = Append(@, BatchErrorMessage(i0, message)),
              !.skipped = @ + Len(batch)]

OnInsertOk(res, batch) ==
  [res EXCEPT !.imported = @ + Len(batch)]

\* An end of the function that leaves success untouched.
FinishWrong(res, cs, vc) ==
  [res EXCEPT !.skipped = @ + (Len(cs) - Len(vc))]

\* The code after the batch loop.

Finish(res, cs, vc) ==
  LET counted == [res EXCEPT !.skipped = @ + (Len(cs) - Len(vc))]
  IN  IF Len(counted.errors) > 0
        THEN [counted EXCEPT !.success = FALSE]
        ELSE counted

\* A slice that ends one row early.
BatchAtWrong(vc, i0) == Slice(vc, i0, i0 + batchSize - 1)

\* The batch the loop takes at index i0.

BatchAt(vc, i0) == Slice(vc, i0, i0 + batchSize)

ProgressCall(message, percent) ==
  [kind |-> "progress", message |-> message, percent |-> percent]

InsertCall(rows) == [kind |-> "insert", rows |-> rows]

\* The calls of one loop iteration up to its await: the progress callback
\* (when there is one), then the insert request.
IterationCalls(u, vc, i0) ==
  LET batch == BatchAt(vc, i0)
      total == Len(vc)
  IN  (IF onProgress
         THEN <<ProgressCall(ProgressMessage(i0, total),
                             Percent(i0, Len(batch), total))>>
         ELSE <<>>)
      \o <<InsertCall(ContactsToInsert(u, batch))>>

\* The calls of all iterations from i0 on.
RECURSIVE AllIterationCalls(_, _, _)
AllIterationCalls(u, vc, i0) ==
  IF i0 < Len(vc)
    THEN IterationCalls(u, vc, i0) \o AllIterationCalls(u, vc, i0 + batchSize)
    ELSE <<>>

\* A batch loop that issues every remaining insert at once, awaiting none.
LoopFromFanOut(u, vc, i0, res, pending) ==
  IF i0 < Len(vc)
    THEN LET all == AllIterationCalls(u, vc, i0)
         IN  /\ calls' = calls \o all
             /\ inflight' = pending \cup
                  {c \in {all[k] : k \in 1 .. Len(all)} : c.kind = "insert"}
             /\ i' = i0
             /\ result' = res
             /\ ipc' = "insert"
    ELSE /\ result' = Finish(res, contacts, vc)
         /\ ipc' = "done"
         /\ inflight' = pending
         /\ i' = i0
         /\ UNCHANGED calls

\* The batch loop entered with loop variable i0 and accumulator res, while
\* the requests in pending are still unsettled: either the next iteration
\* runs up to the await of its insert, or the loop is over and the
\* function returns.
LoopFrom(u, vc, i0, res, pending) ==
  IF i0 < Len(vc)
    THEN /\ calls' = calls \o IterationCalls(u, vc, i0)
         /\ inflight' =
              pending \cup {InsertCall(ContactsToInsert(u, BatchAt(vc, i0)))}
         /\ i' = i0
         /\ result' = res
         /\ ipc' = "insert"
    ELSE /\ result' = Finish(res, contacts, vc)
         /\ ipc' = "done"
         /\ inflight' = pending
         /\ i' = i0
         /\ UNCHANGED calls

GetUserCall == [kind |-> "getUser"]

\* importContacts is called: the accumulator is created and the current
\* user is requested.
ImportCall ==
  /\ ipc = "start"
  /\ result' = InitialResult
  /\ calls' = Append(calls, GetUserCall)
  /\ inflight' = inflight \cup {GetUserCall}
  /\ ipc' = "getUser"
  /\ UNCHANGED <<contacts, onProgress, user, validContacts, i, replies,
                 storedContacts, storedBefore>>
  /\ UNCHANGED <<exportVars, mapVars, wizardVars, attachVars, policyVars>>

\* auth.getUser() settles: the two early returns, or the first iteration.
GetUserReturn ==
  /\ ipc = "getUser"
  /\ \E u \in Users \cup {Null} :
       LET pending == inflight \ {GetUserCall}
       IN
       /\ user' = u
       /\ IF ~IsAuthenticated(u)
            THEN /\ result' = [result EXCEPT !.success = FALSE,
                                             !.errors = <<NotAuthenticatedMsg>>]
                 /\ ipc' = "done"
                 /\ inflight' = pending
                 /\ UNCHANGED <<validContacts, i, calls>>
            ELSE LET vc == SelectSeq(contacts, HasName)
                 IN  /\ validContacts' = vc
                     /\ IF Len(vc) = 0
                          THEN /\ result' =
                                    [result EXCEPT
                                       !.success = FALSE,
                                       !.errors = <<NoValidContactsMsg>>]
                               /\ ipc' = "done"
                               /\ inflight' = pending
                               /\ UNCHANGED <<i, calls>>
                          ELSE LoopFrom(u, vc, 0, result, pending)
  /\ UNCHANGED <<contacts, onProgress, replies, storedContacts, storedBefore>>
  /\ UNCHANGED <<exportVars, mapVars, wizardVars, attachVars, policyVars>>

\* The insert of the current batch settles, with or without an error; the
\* loop goes on with i += batchSize.
InsertReturn ==
  /\ ipc = "insert"
  /\ \E error \in {Null} \cup ErrorMessages :
       LET batch == BatchAt(validContacts, i)
           res == IF error # Null
                    THEN OnInsertError(result, i, batch, error)
                    ELSE OnInsertOk(result, batch)
           pending == inflight \ {InsertCall(ContactsToInsert(user, batch))}
       IN  /\ replies' = Append(replies, error)
           /\ storedContacts' =
                IF error # Null
                  THEN storedContacts
                  ELSE Insert(storedContacts, ContactsToInsert(user, batch))
           /\ LoopFrom(user, validContacts, i + batchSize, res, pending)
  /\ UNCHANGED <<contacts, onProgress, user, validContacts, storedBefore>>
  /\ UNCHANGED <<exportVars, mapVars, wizardVars, attachVars, policyVars>>

----------------------------------------------------------------------------
(* exportAllData *)

Underscore == 95

\* The characters that sanitizeName replaces: < > : " / \ | ? *
IllegalChars == {60, 62, 58, 34, 47, 92, 124, 63, 42}

\* name.replace(/[<>:"/\\|?*]/g, '_').trim()
sanitizeName(name) ==
  Trim([k \in 1 .. Len(name) |->
          IF name[k] \in IllegalChars THEN Underscore ELSE name[k]])

\* new JSZip(): the root files, the rows of the spreadsheet, the folder
\* Attachments, its subfolders and their files.
EmptyZip ==
  [root |-> {}, excel |-> <<>>, attachmentsFolder |-> FALSE,
   folders |-> {}, files |-> {}]

\* folder.file(name, data): a file of that name in the folder is replaced.
ZipFile(z, folder, name, data) ==
  [z EXCEPT !.files =
     {e \in @ : ~(e.folder = folder /\ e.name = name)}
       \cup {[folder |-> folder, name |-> name, data |-> data]}]

\* attachmentsFolder.folder(name)
ZipFolder(z, name) == [z EXCEPT !.folders = @ \cup {name}]

\* attachmentsByContact.get(contact.id) || []
AttachmentsOf(attachments, contact) ==
  SelectSeq(attachments, LAMBDA a : a.contact_id = contact.id)

\* contacts.map(contact => ({...contact, attachments: ...}))
WithAttachments(cs, attachments) ==
  [k \in 1 .. Len(cs) |->
     [id |-> cs[k].id, name |-> cs[k].name,
      attachments |-> AttachmentsOf(attachments, cs[k])]]

\* A spreadsheet whose Files Count counts the distinct file names.
generateExcelWrong(cwa) ==
  [k \in 1 .. Len(cwa) |->
     [number |-> k,
      Name |-> cwa[k].name,
      FilesCount |-> Cardinality({cwa[k].attachments[a].file_name :
                                    a \in 1 .. Len(cwa[k].attachments)}),
      FileNames |-> [a \in 1 .. Len(cwa[k].attachments) |->
                       cwa[k].attachments[a].file_name]]]

\* generateExcel: one row per contact (the columns that copy a field of
\* the contact through a formatter are left out).
generateExcel(cwa) ==
  [k \in 1 .. Len(cwa) |->
     [number |-> k,
      Name |-> cwa[k].name,
      FilesCount |-> Len(cwa[k].attachments),
      FileNames |-> [a \in 1 .. Len(cwa[k].attachments) |->
                       cwa[k].attachments[a].file_name]]]

\* onProgress?.(message, percent)
Progress(message, percent) ==
  IF onProgress THEN <<ProgressCall(message, percent)>> ELSE <<>>

\* Math.round(30 + ((i * contact.attachments.length + j) / totalAttachments) * 60)
DownloadPercent(i0, length, j0, totalAttachments) ==
  Round(30 * totalAttachments + (i0 * length + j0) * 60, totalAttachments)

\* `Downloading: ${attachment.file_name} (${contact.name})`
DownloadMessage(attachment, contact) ==
  <<"Downloading: ", attachment.file_name, " (", contact.name, ")">>

SelectContactsCall == [kind |-> "select", table |-> "contacts"]

SelectAttachmentsCall == [kind |-> "select", table |-> "attachments"]

DownloadCall(path) == [kind |-> "download", path |-> path]

GenerateCall == [kind |-> "generateAsync"]

Dates == {"2024-03-15"}

\* `IR_CRM_Backup_${dateStr}.zip`
BackupFileName(dateStr) == <<"IR_CRM_Backup_", dateStr, ".zip">>

\* The zero-based index of the first contact at or after i0 that has an
\* attachment, or the number of contacts when there is none.
RECURSIVE NextContact(_, _)
NextContact(cwa, i0) ==
  IF i0 >= Len(cwa) \/ Len(cwa[i0 + 1].attachments) > 0
    THEN i0
    ELSE NextContact(cwa, i0 + 1)

\* A throw inside the try block: the catch logs and rethrows, the promise
\* of exportAllData rejects.
Reject(message, pending) ==
  /\ exportError' = <<message>>
  /\ xpc' = "failed"
  /\ inflight' = pending
  /\ UNCHANGED <<calls, contactsWithAttachments, xi, xj, zip, saved>>

\* Step 5 up to the await of zip.generateAsync; log holds the calls made
\* so far.
Generate(z, log, pending) ==
  /\ calls' = log \o Progress(<<"Creating zip file...">>, 95)
                  \o <<GenerateCall>>
  /\ zip' = z
  /\ inflight' = pending
  /\ xpc' = "generate"
  /\ UNCHANGED <<xi, xj, saved, exportError>>

\* The download loops resumed at contact i0, attachment j0 (zero-based),
\* with archive z: they run up to the await of the next download, creating
\* the folder of a contact when its first attachment is reached, or, when
\* no attachment is left, on to step 5.
DownloadFrom(cwa, i0, j0, z, log, pending) ==
  LET same == i0 < Len(cwa) /\ j0 < Len(cwa[i0 + 1].attachments)
      i1 == IF same THEN i0 ELSE NextContact(cwa, i0 + 1)
      j1 == IF same THEN j0 ELSE 0
  IN  IF i1 < Len(cwa)
        THEN LET contact == cwa[i1 + 1]
                 attachment == contact.attachments[j1 + 1]
             IN  /\ zip' = IF j1 = 0
                             THEN ZipFolder(z, sanitizeName(contact.name))
                             ELSE z
                 /\ calls' = log
                      \o Progress(DownloadMessage(attachment, contact),
                                  DownloadPercent(i1, Len(contact.attachments),
                                                  j1, Len(dbAttachments)))
                      \o <<DownloadCall(attachment.file_path)>>
                 /\ inflight' = pending \cup {DownloadCall(attachment.file_path)}
                 /\ xi' = i1
                 /\ xj' = j1
                 /\ xpc' = "download"
                 /\ UNCHANGED <<saved, exportError>>
        ELSE Generate(z, log, pending)

\* An emptiness test that never fires.
NoContactsWrong(data) == FALSE

\* !contacts || contacts.length === 0
NoContacts(data) == Len(data) = 0

\* exportAllData is called: step 1 up to the await of the contacts query.
ExportCall ==
  /\ xpc = "start"
  /\ calls' = calls \o Progress(<<"Fetching contacts...">>, 5)
                    \o <<SelectContactsCall>>
  /\ inflight' = inflight \cup {SelectContactsCall}
  /\ xpc' = "contacts"
  /\ UNCHANGED <<dbContacts, dbAttachments, contactsWithAttachments, xi, xj,
                 zip, saved, exportError, onProgress, downloads>>
  /\ UNCHANGED <<importVars, mapVars, wizardVars, attachVars, policyVars>>

\* The contacts query settles: an error or an empty table rejects,
\* otherwise step 2 runs up to the await of the attachments query.
ContactsReturn ==
  /\ xpc = "contacts"
  /\ LET pending == inflight \ {SelectContactsCall}
     IN  \/ \E message \in ErrorMessages :
              Reject(<<"Failed to fetch contacts: ", message>>, pending)
         \/ IF NoContacts(dbContacts)
              THEN Reject(<<"No contacts to export">>, pending)
              ELSE /\ calls' = calls
                        \o Progress(<<"Fetching attachments info...">>, 15)
                        \o <<SelectAttachmentsCall>>
                   /\ inflight' = pending \cup {SelectAttachmentsCall}
                   /\ xpc' = "attachments"
                   /\ UNCHANGED <<contactsWithAttachments, xi, xj, zip, saved,
                                  exportError>>
  /\ UNCHANGED <<dbContacts, dbAttachments, onProgress, downloads>>
  /\ UNCHANGED <<importVars, mapVars, wizardVars, attachVars, policyVars>>

\* The attachments query settles: an error rejects, otherwise the
\* attachments are grouped, the spreadsheet is generated (step 3) and
\* step 4 runs up to the await of the first download.
AttachmentsReturn ==
  /\ xpc = "attachments"
  /\ LET pending == inflight \ {SelectAttachmentsCall}
     IN  \/ \E message \in ErrorMessages :
              Reject(<<"Failed to fetch attachments: ", message>>, pending)
         \/ LET cwa == WithAttachments(dbContacts, dbAttachments)
                z == [EmptyZip EXCEPT !.root = {"Contacts.xlsx"},
                                      !.excel = generateExcel(cwa)]
                log == calls \o Progress(<<"Generating Excel file...">>, 25)
            IN  /\ contactsWithAttachments' = cwa
                /\ IF Len(dbAttachments) > 0
                     THEN DownloadFrom(cwa, 0, 0,
                                       [z EXCEPT !.attachmentsFolder = TRUE],
                                       log, pending)
                     ELSE Generate(z, log, pending)
  /\ UNCHANGED <<dbContacts, dbAttachments, onProgress, downloads>>
  /\ UNCHANGED <<importVars, mapVars, wizardVars, attachVars, policyVars>>

DownloadOutcomes == {"data", "error", "throw"}

\* A download loop without the inner try/catch: an exception thrown by
\* the download reaches the outer catch and rejects the export.
DownloadReturnNoCatch ==
  /\ xpc = "download"
  /\ \E outcome \in DownloadOutcomes :
       LET contact == contactsWithAttachments[xi + 1]
           attachment == contact.attachments[xj + 1]
           pending == inflight \ {DownloadCall(attachment.file_path)}
           z == IF outcome = "data"
                  THEN ZipFile(zip, sanitizeName(contact.name),
                               sanitizeName(attachment.file_name),
                               attachment.file_path)
                  ELSE zip
       IN  /\ downloads' = Append(downloads,
                                  [path |-> attachment.file_path,
                                   outcome |-> outcome])
           /\ IF outcome = "throw"
                THEN Reject(<<"download failed">>, pending)
                ELSE DownloadFrom(contactsWithAttachments, xi, xj + 1, z,
                                  calls, pending)
  /\ UNCHANGED <<dbContacts, dbAttachments, contactsWithAttachments,
                 onProgress>>
  /\ UNCHANGED <<importVars, mapVars, wizardVars, attachVars, policyVars>>

\* The download of the current attachment settles: its data is added to
\* the folder of the contact under the sanitized file name; an error
\* result or an exception is logged and the file is left out.  The loops
\* go on with j + 1.
DownloadReturn ==
  /\ xpc = "download"
  /\ \E outcome \in DownloadOutcomes :
       LET contact == contactsWithAttachments[xi + 1]
           attachment == contact.attachments[xj + 1]
           pending == inflight \ {DownloadCall(attachment.file_path)}
           z == IF outcome = "data"
                  THEN ZipFile(zip, sanitizeName(contact.name),
                               sanitizeName(attachment.file_name),
                               attachment.file_path)
                  ELSE zip
       IN  /\ downloads' = Append(downloads,
                                  [path |-> attachment.file_path,
                                   outcome |-> outcome])
           /\ DownloadFrom(contactsWithAttachments, xi, xj + 1, z, calls,
                           pending)
  /\ UNCHANGED <<dbContacts, dbAttachments, contactsWithAttachments,
                 onProgress>>
  /\ UNCHANGED <<importVars, mapVars, wizardVars, attachVars, policyVars>>

\* zip.generateAsync settles: the archive is saved under a name with the
\* date of the day.
GenerateReturn ==
  /\ xpc = "generate"
  /\ \E dateStr \in Dates :
       /\ calls' = calls \o Progress(<<"Download starting...">>, 100)
                         \o <<[kind |-> "saveAs"]>>
       /\ saved' = <<[filename |-> BackupFileName(dateStr), content |-> zip]>>
  /\ xpc' = "done"
  /\ UNCHANGED <<dbContacts, dbAttachments, contactsWithAttachments, xi, xj,
                 zip, exportError, onProgress, inflight, downloads>>
  /\ UNCHANGED <<importVars, mapVars, wizardVars, attachVars, policyVars>>

----------------------------------------------------------------------------
(* Spreadsheet cells as JavaScript values                                  *)
(*                                                                         *)
(* A cell value is a record with a type tag t, a number n and a string s   *)
(* (a sequence of code points).  Numbers are counted in tenths, so that    *)
(* 2.5 is 25 and 3 is 30.  A null or NaN result is the empty sequence; a   *)
(* number result is a one-element sequence.                                *)

Unit == 10

Absent == <<>>

JsNull == [t |-> "null", n |-> 0, s |-> <<>>]

JsNumber(tenths) == [t |-> "number", n |-> tenths, s |-> <<>>]

JsString(codes) == [t |-> "string", n |-> 0, s |-> codes]

JsBoolean(b) == [t |-> "boolean", n |-> IF b THEN 1 ELSE 0, s |-> <<>>]

\* A Date object, by its time value in minutes since the epoch.
JsDate(minutes) == [t |-> "date", n |-> minutes, s |-> <<>>]

\* A Date object whose time value is NaN.
JsInvalidDate == [t |-> "invalid date", n |-> 0, s |-> <<>>]

\* A truth test for which only null is falsy.
FalsyWrong(value) == value.t = "null"

\* !value
Falsy(value) ==
  \/ value.t = "null"
  \/ value.t = "number" /\ value.n = 0
  \/ value.t = "string" /\ value.s = <<>>
  \/ value.t = "boolean" /\ value.n = 0

IsDigit(c) == c \in 48 .. 57

\* The decimal digits of a natural number.
RECURSIVE DecimalDigits(_)
DecimalDigits(k) ==
  IF k < 10 THEN <<48 + k>>
            ELSE Append(DecimalDigits(k \div 10), 48 + (k % 10))

\* String(n) of a number with at most one fractional digit.
NumberToString(n) ==
  LET a == IF n < 0 THEN 0 - n ELSE n
      fraction == IF a % Unit = 0 THEN <<>> ELSE <<46, 48 + (a % Unit)>>
  IN  (IF n < 0 THEN <<45>> ELSE <<>>) \o DecimalDigits(a \div Unit)
        \o fraction

\* String(value) of a string, number, boolean or null.
StringOf(value) ==
  CASE value.t = "string" -> value.s
    [] value.t = "number" -> NumberToString(value.n)
    [] value.t = "boolean" ->
         \* "true", "false"
         IF value.n = 1 THEN <<116, 114, 117, 101>> ELSE <<102, 97, 108, 115, 101>>
    \* "null"
    [] value.t = "null" -> <<110, 117, 108, 108>>

\* String(k).padStart(2, '0')
padStart(s) == IF Len(s) < 2 THEN <<48>> \o s ELSE s

\* The longest prefix of s made of decimal digits.
RECURSIVE DigitPrefix(_)
DigitPrefix(s) ==
  IF s # <<>> /\ IsDigit(Head(s))
    THEN <<Head(s)>> \o DigitPrefix(Tail(s))
    ELSE <<>>

\* The natural number written by a sequence of decimal digits.
RECURSIVE DigitsValue(_)
DigitsValue(d) ==
  IF d = <<>> THEN 0
  ELSE 10 * DigitsValue(SubSeq(d, 1, Len(d) - 1)) + (d[Len(d)] - 48)

\* The sign that parseInt and parseFloat read after the leading blanks.
SignOf(t) == IF t # <<>> /\ Head(t) = 45 THEN 0 - 1 ELSE 1

Unsigned(t) == IF t # <<>> /\ Head(t) \in {43, 45} THEN Tail(t) ELSE t

\* parseInt(s): blanks, a sign, then the longest run of decimal digits;
\* NaN without a digit.  (A 0x prefix is not modelled.)
parseInt(s) ==
  LET t == TrimStart(s)
      digits == DigitPrefix(Unsigned(t))
  IN  IF digits = <<>> THEN Absent
      ELSE <<SignOf(t) * DigitsValue(digits) * Unit>>

\* parseFloat(s): blanks, a sign, digits and a fraction; NaN without a
\* digit.  (Exponents, Infinity and fractional digits after the first are
\* not modelled.)
parseFloat(s) ==
  LET t == TrimStart(s)
      body == Unsigned(t)
      whole == DigitPrefix(body)
      rest == SubSeq(body, Len(whole) + 1, Len(body))
      fraction == IF rest # <<>> /\ Head(rest) = 46
                    THEN DigitPrefix(Tail(rest)) ELSE <<>>
      tenths == IF fraction = <<>> THEN 0 ELSE fraction[1] - 48
  IN  IF whole = <<>> /\ fraction = <<>> THEN Absent
      ELSE <<SignOf(t) * (DigitsValue(whole) * Unit + tenths)>>

----------------------------------------------------------------------------
(* Calendar dates *)

IsLeapYear(y) == (y % 4 = 0 /\ y % 100 # 0) \/ y % 400 = 0

DaysInMonth(y, m) ==
  IF m = 2 THEN (IF IsLeapYear(y) THEN 29 ELSE 28)
  ELSE IF m \in {4, 6, 9, 11} THEN 30 ELSE 31

\* The number of days from 1970-01-01 to the civil date y-m-d.
DaysFromCivil(y, m, d) ==
  LET yy == IF m <= 2 THEN y - 1 ELSE y
      era == yy \div 400
      yoe == yy - era * 400
      mp == IF m > 2 THEN m - 3 ELSE m + 9
      doy == (153 * mp + 2) \div 5 + d - 1
      doe == yoe * 365 + yoe \div 4 - yoe \div 100 + doy
  IN  era * 146097 + doe - 719468

\* The civil date <<y, m, d>> that lies z days after 1970-01-01.
CivilFromDays(z) ==
  LET zz == z + 719468
      era == zz \div 146097
      doe == zz - era * 146097
      yoe == (doe - doe \div 1460 + doe \div 36524 - doe \div 146096) \div 365
      doy == doe - (365 * yoe + yoe \div 4 - yoe \div 100)
      mp == (5 * doy + 2) \div 153
      d == doy - (153 * mp + 2) \div 5 + 1
      m == IF mp < 10 THEN mp + 3 ELSE mp - 9
  IN  <<yoe + era * 400 + (IF m <= 2 THEN 1 ELSE 0), m, d>>

MinutesPerDay == 1440

\* Local time zones, in minutes east of UTC: New York (winter), UTC, Tokyo.
TimeZones == {0 - 300, 0, 540}

\* getFullYear(), getMonth() + 1 and getDate() of a Date: the civil date of
\* its time value in the local time zone.
LocalDate(minutes, tz) == CivilFromDays((minutes + tz) \div MinutesPerDay)

\* `${year}-${month}-${day}` with month and day padded to two digits.
FormatDate(date) ==
  DecimalDigits(date[1]) \o <<45>> \o padStart(DecimalDigits(date[2]))
    \o <<45>> \o padStart(DecimalDigits(date[3]))

\* A date-only ISO literal YYYY-MM-DD that names a day of the calendar.
IsIsoDate(s) ==
  /\ Len(s) = 10
  /\ s[5] = 45
  /\ s[8] = 45
  /\ \A k \in {1, 2, 3, 4, 6, 7, 9, 10} : IsDigit(s[k])
  /\ DigitsValue(SubSeq(s, 6, 7)) \in 1 .. 12
  /\ DigitsValue(SubSeq(s, 9, 10)) \in
       1 .. DaysInMonth(DigitsValue(SubSeq(s, 1, 4)),
                        DigitsValue(SubSeq(s, 6, 7)))

HasDigit(s) == \E k \in 1 .. Len(s) : IsDigit(s[k])

\* The strings for which every engine agrees on new Date(s): a date-only
\* ISO literal, and a string without any digit (an invalid date).
DateParseDefined(s) == IsIsoDate(s) \/ ~HasDigit(s)

\* new Date(s).getTime(): a date-only ISO literal is midnight UTC of its
\* day; NaN otherwise.
DateParse(s) ==
  IF IsIsoDate(s)
    THEN <<DaysFromCivil(DigitsValue(SubSeq(s, 1, 4)),
                         DigitsValue(SubSeq(s, 6, 7)),
                         DigitsValue(SubSeq(s, 9, 10))) * MinutesPerDay>>
    ELSE Absent

\* XLSX.SSF.parse_date_code(v), fields y, m, d: the day of a serial date
\* of the 1900 date system, with its fictitious 1900-02-29 (serial 60).
parse_date_code(v) ==
  IF v < 0 \/ v > 2958465 * Unit THEN Absent
  ELSE LET date == v \div Unit
       IN  IF date = 60 THEN <<1900, 2, 29>>
           ELSE IF date = 0 THEN <<1900, 1, 0>>
           ELSE CivilFromDays(DaysFromCivil(1900, 1, 1) - 1
                                + (IF date > 60 THEN date - 1 ELSE date))

----------------------------------------------------------------------------
(* Value normalizers *)

\* A number between the serial dates 40000 and 60000 (tenths).
IsSerial(numValue) ==
  /\ numValue # Absent
  /\ numValue[1] > 40000 * Unit
  /\ numValue[1] < 60000 * Unit

\* The strings the date normalizer is applied to: a serial number, which
\* never reaches new Date(s), and those new Date(s) is defined for.
DateInput(s) == IsSerial(parseFloat(Trim(s))) \/ DateParseDefined(Trim(s))

\* parseExcelDate(value) in the local time zone tz.
parseExcelDate(value, tz) ==
  IF Falsy(value) THEN Absent
  ELSE IF value.t = "number" THEN
    LET date == parse_date_code(value.n)
    IN  IF date # Absent THEN FormatDate(date) ELSE Absent
  ELSE IF value.t = "string" THEN
    LET trimmed == Trim(value.s)
        numValue == parseFloat(trimmed)
        serial == IsSerial(numValue)
        parsedDate == DateParse(trimmed)
    IN  IF trimmed = <<>> THEN Absent
        ELSE IF serial /\ parse_date_code(numValue[1]) # Absent
          THEN FormatDate(parse_date_code(numValue[1]))
        ELSE IF parsedDate # Absent
          THEN FormatDate(LocalDate(parsedDate[1], tz))
        ELSE Absent
  ELSE IF value.t = "date" THEN FormatDate(LocalDate(value.n, tz))
  ELSE Absent

\* parsePriority(value)
parsePriority(value) ==
  IF Falsy(value) THEN Absent
  \* "N/A", "n/a", "-"
  ELSE IF value.t = "string" /\ value.s \in {<<78, 47, 65>>, <<110, 47, 97>>, <<45>>}
    THEN Absent
  ELSE LET num == IF value.t = "number" THEN <<value.n>>
                  ELSE parseInt(Trim(StringOf(value)))
       IN  IF num = Absent \/ num[1] < 1 * Unit \/ num[1] > 5 * Unit
             THEN Absent
             ELSE num

----------------------------------------------------------------------------
(* Column mapper *)

\* toLowerCase() of a string of ASCII characters.
ToLowerCase(s) ==
  [k \in 1 .. Len(s) |-> IF s[k] \in 65 .. 90 THEN s[k] + 32 ELSE s[k]]

\* replace(/[_\s]+/g, ''): every underscore and white space is removed.
RemoveSeparators(s) == SelectSeq(s, LAMBDA c : c \notin WhiteSpace \cup {Underscore})

\* A normalization that keeps the case of the header.
normalizeColumnNameWrong(name) == RemoveSeparators(Trim(name))

normalizeColumnName(name) == RemoveSeparators(Trim(ToLowerCase(name)))

\* The fields of an ImportedContact.
ContactFields ==
  {"name", "email", "phone", "location", "details", "institution",
   "last_interaction_date", "priority"}

columnMappings ==
  \* name
     (<<110, 97, 109, 101>> :> "name")
  \* fullname
  @@ (<<102, 117, 108, 108, 110, 97, 109, 101>> :> "name")
  \* contactname
  @@ (<<99, 111, 110, 116, 97, 99, 116, 110, 97, 109, 101>> :> "name")
  \* email
  @@ (<<101, 109, 97, 105, 108>> :> "email")
  \* emailaddress
  @@ (<<101, 109, 97, 105, 108, 97, 100, 100, 114, 101, 115, 115>> :> "email")
  \* mail
  @@ (<<109, 97, 105, 108>> :> "email")
  \* phone
  @@ (<<112, 104, 111, 110, 101>> :> "phone")
  \* phonenumber
  @@ (<<112, 104, 111, 110, 101, 110, 117, 109, 98, 101, 114>> :> "phone")
  \* telephone
  @@ (<<116, 101, 108, 101, 112, 104, 111, 110, 101>> :> "phone")
  \* tel
  @@ (<<116, 101, 108>> :> "phone")
  \* mobile
  @@ (<<109, 111, 98, 105, 108, 101>> :> "phone")
  \* location
  @@ (<<108, 111, 99, 97, 116, 105, 111, 110>> :> "location")
  \* city
  @@ (<<99, 105, 116, 121>> :> "location")
  \* address
  @@ (<<97, 100, 100, 114, 101, 115, 115>> :> "location")
  \* country
  @@ (<<99, 111, 117, 110, 116, 114, 121>> :> "location")
  \* notes
  @@ (<<110, 111, 116, 101, 115>> :> "details")
  \* details
  @@ (<<100, 101, 116, 97, 105, 108, 115>> :> "details")
  \* note
  @@ (<<110, 111, 116, 101>> :> "details")
  \* description
  @@ (<<100, 101, 115, 99, 114, 105, 112, 116, 105, 111, 110>> :> "details")
  \* comments
  @@ (<<99, 111, 109, 109, 101, 110, 116, 115>> :> "details")
  \* institution
  @@ (<<105, 110, 115, 116, 105, 116, 117, 116, 105, 111, 110>> :> "institution")
  \* company
  @@ (<<99, 111, 109, 112, 97, 110, 121>> :> "institution")
  \* organization
  @@ (<<111, 114, 103, 97, 110, 105, 122, 97, 116, 105, 111, 110>> :> "institution")
  \* org
  @@ (<<111, 114, 103>> :> "institution")
  \* firm
  @@ (<<102, 105, 114, 109>> :> "institution")
  \* fund
  @@ (<<102, 117, 110, 100>> :> "institution")
  \* dateoflastinteraction
  @@ (<<100, 97, 116, 101, 111, 102, 108, 97, 115, 116, 105, 110, 116, 101, 114, 97, 99, 116, 105, 111, 110>> :> "last_interaction_date")
  \* date
  @@ (<<100, 97, 116, 101>> :> "last_interaction_date")
  \* lastinteractiondate
  @@ (<<108, 97, 115, 116, 105, 110, 116, 101, 114, 97, 99, 116, 105, 111, 110, 100, 97, 116, 101>> :> "last_interaction_date")
  \* lastcontactdate
  @@ (<<108, 97, 115, 116, 99, 111, 110, 116, 97, 99, 116, 100, 97, 116, 101>> :> "last_interaction_date")
  \* interactiondate
  @@ (<<105, 110, 116, 101, 114, 97, 99, 116, 105, 111, 110, 100, 97, 116, 101>> :> "last_interaction_date")
  \* priority
  @@ (<<112, 114, 105, 111, 114, 105, 116, 121>> :> "priority")
  \* priorty
  @@ (<<112, 114, 105, 111, 114, 116, 121>> :> "priority")
  \* rank
  @@ (<<114, 97, 110, 107>> :> "priority")
  \* importance
  @@ (<<105, 109, 112, 111, 114, 116, 97, 110, 99, 101>> :> "priority")

extraNotesColumns ==
  \* "lastinteraction"
  {<<108, 97, 115, 116, 105, 110, 116, 101, 114, 97, 99, 116, 105, 111, 110>>,
   \* "documentsprovided"
   <<100, 111, 99, 117, 109, 101, 110, 116, 115, 112, 114, 111, 118, 105, 100, 101, 100>>,
   \* "documents"
   <<100, 111, 99, 117, 109, 101, 110, 116, 115>>}

\* columnMappings[normalizedKey]: the field of an own key of the table;
\* the function Object for the key "constructor", which the object
\* literal inherits from Object.prototype; undefined for any other key.
FieldNameOf(normalizedKey) ==
  IF normalizedKey \in DOMAIN columnMappings
    THEN columnMappings[normalizedKey]
  \* "constructor"
  ELSE IF normalizedKey = <<99, 111, 110, 115, 116, 114, 117, 99, 116, 111, 114>>
    THEN "function Object"
  ELSE Null

----------------------------------------------------------------------------
(* Row normalizer *)

\* The contact that mapToContacts starts from.  `other` is the value of a
\* property set under a key that is not a field of ImportedContact, if any.
EmptyContact ==
  [name |-> <<>>, email |-> Absent, phone |-> Absent, location |-> Absent,
   details |-> Absent, institution |-> Absent,
   last_interaction_date |-> Absent, priority |-> Absent, other |-> Absent]

\* extraNotes.join('\n')
RECURSIVE Join(_)
Join(notes) ==
  IF Len(notes) = 1 THEN notes[1]
  ELSE notes[1] \o <<10>> \o Join(Tail(notes))

\* A loop body that folds every unmapped column into the notes.
MapCellKeepsExtras(acc, key, value, tz) ==
  IF Falsy(value) THEN acc
  ELSE
    LET normalizedKey == normalizeColumnName(key)
        fieldName == FieldNameOf(normalizedKey)
        textValue == Trim(StringOf(value))
    IN  IF fieldName # Null THEN
          CASE fieldName = "name" ->
                 [acc EXCEPT !.contact.name = textValue]
            [] fieldName = "last_interaction_date" ->
                 [acc EXCEPT !.contact.last_interaction_date =
                               parseExcelDate(value, tz)]
            [] fieldName = "priority" ->
                 [acc EXCEPT !.contact.priority = parsePriority(value)]
            [] fieldName = "details" ->
                 IF textValue # <<>>
                   THEN [acc EXCEPT !.extraNotes = Append(@, textValue)]
                   ELSE acc
            [] fieldName \in {"email", "phone", "location", "institution"} ->
                 [acc EXCEPT !.contact[fieldName] = textValue]
            [] OTHER ->
                 [acc EXCEPT !.contact.other = textValue]
        ELSE IF textValue # <<>>
          THEN [acc EXCEPT !.extraNotes =
                             Append(@, Trim(key) \o <<58, 32>> \o textValue)]
        ELSE acc

\* One iteration of the loop over Object.entries(row).
MapCell(acc, key, value, tz) ==
  IF Falsy(value) THEN acc
  ELSE
    LET normalizedKey == normalizeColumnName(key)
        fieldName == FieldNameOf(normalizedKey)
        textValue == Trim(StringOf(value))
    IN  IF fieldName # Null THEN
          CASE fieldName = "name" ->
                 [acc EXCEPT !.contact.name = textValue]
            [] fieldName = "last_interaction_date" ->
                 [acc EXCEPT !.contact.last_interaction_date =
                               parseExcelDate(value, tz)]
            [] fieldName = "priority" ->
                 [acc EXCEPT !.contact.priority = parsePriority(value)]
            [] fieldName = "details" ->
                 IF textValue # <<>>
                   THEN [acc EXCEPT !.extraNotes = Append(@, textValue)]
                   ELSE acc
            [] fieldName \in {"email", "phone", "location", "institution"} ->
                 [acc EXCEPT !.contact[fieldName] = textValue]
            [] OTHER ->
                 [acc EXCEPT !.contact.other = textValue]
        ELSE IF normalizedKey \in extraNotesColumns /\ textValue # <<>>
          THEN [acc EXCEPT !.extraNotes =
                             Append(@, Trim(key) \o <<58, 32>> \o textValue)]
        ELSE acc

\* The loop over the entries of a row, from its first column to its last.
RECURSIVE MapCells(_, _, _)
MapCells(acc, row, tz) ==
  IF row = <<>> THEN acc
  ELSE MapCells(MapCell(acc, row[1].key, row[1].value, tz), Tail(row), tz)

\* A row body that appends the sheet marker after the other fragments.
MapRowMarkerLast(row, sourceSheet, tz) ==
  LET acc == MapCells([contact |-> EmptyContact, extraNotes |-> <<>>],
                      row, tz)
      extraNotes == IF sourceSheet # <<>>
                      THEN Append(acc.extraNotes,
                                  <<91>> \o sourceSheet \o <<93>>)
                      ELSE acc.extraNotes
  IN  IF Len(extraNotes) > 0
        THEN [acc.contact EXCEPT !.details = Join(extraNotes)]
        ELSE acc.contact

\* The body of rawData.map: the contact of one row.
MapRow(row, sourceSheet, tz) ==
  LET acc == MapCells([contact |-> EmptyContact, extraNotes |-> <<>>],
                      row, tz)
      extraNotes == IF sourceSheet # <<>>
                      THEN <<(<<91>> \o sourceSheet \o <<93>>)>>
                             \o acc.extraNotes
                      ELSE acc.extraNotes
  IN  IF Len(extraNotes) > 0
        THEN [acc.contact EXCEPT !.details = Join(extraNotes)]
        ELSE acc.contact

\* mapToContacts(rawData, sourceSheet) in the local time zone tz.
mapToContacts(rawData, sourceSheet, tz) ==
  [k \in 1 .. Len(rawData) |-> MapRow(rawData[k], sourceSheet, tz)]

\* The column mapper and the normalizers before they are applied.
MapIdle ==
  /\ mpc = "idle"
  /\ header = <<>>
  /\ baseHeader = <<>>
  /\ cellValue = JsNull
  /\ timeZone = 0
  /\ sheetRows = <<>>
  /\ sheetName = <<>>
  /\ out = <<>>

\* The column mapper resolves a header and the header it is a variant of.
NormalizeColumn ==
  /\ mpc = "column"
  /\ mpc' = "resolved"
  /\ out' = [key |-> normalizeColumnName(header),
             fieldName |-> FieldNameOf(normalizeColumnName(header)),
             baseFieldName |-> FieldNameOf(normalizeColumnName(baseHeader))]
  /\ UNCHANGED <<header, baseHeader, cellValue, timeZone, sheetRows, sheetName>>
  /\ UNCHANGED <<importVars, exportVars, wizardVars, attachVars, policyVars>>
  /\ UNCHANGED <<onProgress, calls, inflight>>

\* The priority normalizer is applied to a cell cellValue.  (String(cellValue) of
\* a Date object is not modelled: sheet_to_json with raw: true yields none.)
ParsePriority ==
  /\ mpc = "cellValue"
  /\ cellValue.t \notin {"date", "invalid date"}
  /\ mpc' = "priority"
  /\ out' = parsePriority(cellValue)
  /\ UNCHANGED <<header, baseHeader, cellValue, timeZone, sheetRows, sheetName>>
  /\ UNCHANGED <<importVars, exportVars, wizardVars, attachVars, policyVars>>
  /\ UNCHANGED <<onProgress, calls, inflight>>

\* The date normalizer is applied to a cell cellValue.
ParseDate ==
  /\ mpc = "cellValue"
  /\ cellValue.t = "string" => DateInput(cellValue.s)
  /\ mpc' = "date"
  /\ out' = parseExcelDate(cellValue, timeZone)
  /\ UNCHANGED <<header, baseHeader, cellValue, timeZone, sheetRows, sheetName>>
  /\ UNCHANGED <<importVars, exportVars, wizardVars, attachVars, policyVars>>
  /\ UNCHANGED <<onProgress, calls, inflight>>

\* mapToContacts is applied to the rows of a sheet.
MapToContacts ==
  /\ mpc = "rows"
  /\ mpc' = "mapped"
  /\ out' = mapToContacts(sheetRows, sheetName, timeZone)
  /\ UNCHANGED <<header, baseHeader, cellValue, timeZone, sheetRows, sheetName>>
  /\ UNCHANGED <<importVars, exportVars, wizardVars, attachVars, policyVars>>
  /\ UNCHANGED <<onProgress, calls, inflight>>

----------------------------------------------------------------------------
(* The inputs of importContacts *)

\* Rows of the argument that may lack a name.
BlankRows == {1, 2, batchSize, batchSize + 1}

\* The name of row k: every named row has a name of its own, odd rows
\* with surrounding blanks; a nameless row has an empty name or only blanks.
RowName(k, blank) ==
  IF k \in blank
    THEN (IF k % 2 = 1 THEN <<>> ELSE <<Space, 9>>)
    ELSE (IF k % 2 = 1 THEN <<Space, 1000 + k, Space>> ELSE <<1000 + k>>)

ImportedContact(k, blank) ==
  [name |-> RowName(k, blank),
   email |-> Null,
   phone |-> Null,
   location |-> Null,
   details |-> Null,
   institution |-> Null,
   last_interaction_date |-> Null,
   priority |-> Null]

\* The `error` state and the `result` state when they are null.
NoMessage == <<>>

\* The state that useState gives ExcelImport, and that resetState restores.
InitialWizard(st, f, sh, sel, pd, imp, res, err) ==
  /\ st = "upload"
  /\ f = <<>>
  /\ sh = <<>>
  /\ sel = <<>>
  /\ pd = <<>>
  /\ imp = FALSE
  /\ res = <<>>
  /\ err = NoMessage

\* ExcelImport before it is opened.
WizardIdle ==
  /\ InitialWizard(step, file, sheets, selectedSheets, previewData,
                   importing, wizardResult, wizardError)
  /\ isOpen = FALSE
  /\ notified = FALSE
  /\ awaited = EmptyBag
  /\ userFiles = {}

\* The contact page before it is opened.
AttachIdle ==
  /\ fpc = "idle"
  /\ binaries = {}
  /\ attachmentRows = {}
  /\ contactStored = FALSE
  /\ listed = {}
  /\ pendingFiles = 0
  /\ newAttachments = {}
  /\ deleting = <<>>
  /\ nextPath = 1
  /\ uploadError = NoMessage

\* The tables of the schema before a row is stored.
PolicyIdle ==
  /\ policyRows = {}
  /\ granted = <<>>

\* exportAllData before it is called.
ExportIdle ==
  /\ xpc = "idle"
  /\ dbContacts = <<>>
  /\ dbAttachments = <<>>
  /\ contactsWithAttachments = <<>>
  /\ xi = 0
  /\ xj = 0
  /\ zip = EmptyZip
  /\ saved = <<>>
  /\ exportError = <<>>
  /\ downloads = <<>>

\* The contacts table before the run: empty, or holding the rows of an
\* earlier import of the same contacts when these are at most MaxStored.
StoredTables(cs) ==
  LET rows == ContactsToInsert("u1", SelectSeq(cs, HasName))
  IN  {<<>>} \cup (IF Len(rows) <= MaxStored
                     THEN {Insert(<<>>, rows)}
                     ELSE {})

InitImport ==
  /\ ipc = "start"
  /\ \E n \in 0 .. MaxContacts :
       \E blank \in SUBSET BlankRows :
         contacts = [k \in 1 .. n |-> ImportedContact(k, blank)]
  /\ onProgress \in BOOLEAN
  /\ user = Null
  /\ validContacts = <<>>
  /\ i = 0
  /\ result = InitialResult
  /\ replies = <<>>
  /\ storedContacts \in StoredTables(contacts)
  /\ storedBefore = storedContacts
  /\ calls = <<>>
  /\ inflight = {}
  /\ ExportIdle
  /\ MapIdle
  /\ WizardIdle
  /\ AttachIdle
  /\ PolicyIdle

----------------------------------------------------------------------------
(* The inputs of exportAllData *)

\* Contact names in the order of `order by name`: "A", "A:", "A?".
ContactNames == << <<65>>, <<65, 58>>, <<65, 63>> >>

\* The file name of the k-th attachment: "f" or "f*", so that attachments
\* of one contact may or may not share their file name.
FileNameOf(k) == IF k % 2 = 1 THEN <<102>> ELSE <<102, 42>>

\* importContacts before it is called.
ImportIdle ==
  /\ ipc = "idle"
  /\ contacts = <<>>
  /\ user = Null
  /\ validContacts = <<>>
  /\ i = 0
  /\ result = InitialResult
  /\ replies = <<>>
  /\ storedContacts = <<>>
  /\ storedBefore = <<>>

\* The tables hold nc contacts, ordered by name, and up to MaxAttachments
\* attachments, each of one of these contacts.
InitExport ==
  /\ xpc = "start"
  /\ \E nc \in 0 .. MaxExportContacts :
       /\ \E f \in [1 .. nc -> 1 .. Len(ContactNames)] :
            /\ \A k \in 1 .. nc - 1 : f[k] <= f[k + 1]
            /\ dbContacts = [k \in 1 .. nc |-> [id |-> k, name |-> ContactNames[f[k]]]]
       /\ \E m \in 0 .. (IF nc = 0 THEN 0 ELSE MaxAttachments) :
            \E owner \in [1 .. m -> 1 .. nc] :
              dbAttachments =
                [k \in 1 .. m |->
                   [id |-> k, contact_id |-> owner[k],
                    file_name |-> FileNameOf(k), file_path |-> <<"path", k>>]]
  /\ onProgress \in BOOLEAN
  /\ contactsWithAttachments = <<>>
  /\ xi = 0
  /\ xj = 0
  /\ zip = EmptyZip
  /\ saved = <<>>
  /\ exportError = <<>>
  /\ downloads = <<>>
  /\ calls = <<>>
  /\ inflight = {}
  /\ ImportIdle
  /\ MapIdle
  /\ WizardIdle
  /\ AttachIdle
  /\ PolicyIdle

----------------------------------------------------------------------------
(* The inputs of the column mapper, the normalizers and mapToContacts *)

MaxColumns == 2           \* most columns of a row handed to mapToContacts

\* Normalized keys that are no key of either table; four of them contain a
\* synonym key.
OtherKeys ==
  \* "nickname"
  {<<110, 105, 99, 107, 110, 97, 109, 101>>,
   \* "emails"
   <<101, 109, 97, 105, 108, 115>>,
   \* "telephones"
   <<116, 101, 108, 101, 112, 104, 111, 110, 101, 115>>,
   \* "e-mail"
   <<101, 45, 109, 97, 105, 108>>,
   \* "sector"
   <<115, 101, 99, 116, 111, 114>>,
   \* "constructor"
   <<99, 111, 110, 115, 116, 114, 117, 99, 116, 111, 114>>}

BaseHeaders == (DOMAIN columnMappings) \cup extraNotesColumns \cup OtherKeys

\* Underscores and spaces written inside a header.
Separators == {<<>>, <<Underscore>>, <<Space>>, <<Underscore, Space>>}

\* White space written before and after a header.
Paddings ==
  {<< <<>>, <<>> >>, << <<Space, Space>>, <<Space>> >>, << <<9>>, <<>> >>}

\* The string s with the letters at the given positions in upper case.
UpperCase(s, positions) ==
  [k \in 1 .. Len(s) |->
     IF k \in positions /\ s[k] \in 97 .. 122 THEN s[k] - 32 ELSE s[k]]

\* A header that differs from base only in case, in surrounding white
\* space and in underscores and spaces.
Variant(base, positions, at, sep, pad) ==
  pad[1] \o SubSeq(UpperCase(base, positions), 1, at) \o sep
    \o SubSeq(UpperCase(base, positions), at + 1, Len(base)) \o pad[2]

\* Years of the date literals.
Years == {1970, 2024}

\* Every date literal YYYY-MM-DD of these years.
IsoDates ==
  {FormatDate(date) :
     date \in {c \in Years \X (1 .. 12) \X (1 .. 31) :
                 c[3] <= DaysInMonth(c[1], c[2])}}

\* Cell texts: "", " ", "N/A", "n/a", "-", "abc", "3", " 4 ", "3abc",
\* "3.9", "0", "6", "-2", "45366", "not a date" and the date literals.
CellTexts ==
  \* " ", "N/A", "n/a", "-", "abc", "3", " 4 ", "3abc"
  {<<>>, <<32>>, <<78, 47, 65>>, <<110, 47, 97>>, <<45>>, <<97, 98, 99>>, <<51>>, <<32, 52, 32>>, <<51, 97, 98, 99>>,
   \* "3.9", "0", "6", "-2", "45366"
   <<51, 46, 57>>, <<48>>, <<54>>, <<45, 50>>, <<52, 53, 51, 54, 54>>,
   \* "not a date"
   <<110, 111, 116, 32, 97, 32, 100, 97, 116, 101>>}
    \cup IsoDates

\* Cell numbers: 0, 1 .. 6, 0.5, 2.5, 5.5, -1, and the serial dates 45366
\* (2024-03-15), 45366.5, 59 and 61.
CellNumbers ==
  {0, 10, 20, 30, 40, 50, 60, 5, 25, 55, 0 - 10, 453660, 453665, 590, 610}

\* 2024-03-15T23:00Z as a Date object.
LateEvening == JsDate(DaysFromCivil(2024, 3, 15) * MinutesPerDay + 1380)

CellValues ==
  {JsNull, JsBoolean(TRUE), JsBoolean(FALSE), LateEvening, JsInvalidDate}
    \cup {JsNumber(n) : n \in CellNumbers}
    \cup {JsString(s) : s \in CellTexts}

Cell(key, value) == [key |-> key, value |-> value]

\* The cells of the rows: a header as the sheet writes it and a value.
Cells ==
  \* "Name", "Jane"
  {Cell(<<78, 97, 109, 101>>, JsString(<<74, 97, 110, 101>>)),
   \* "Name", " "
   Cell(<<78, 97, 109, 101>>, JsString(<<32>>)),
   \* "Name"
   Cell(<<78, 97, 109, 101>>, JsNull),
   \* "Name"
   Cell(<<78, 97, 109, 101>>, JsNumber(70)),
   \* "  Full_Name ", " Jo "
   Cell(<<32, 32, 70, 117, 108, 108, 95, 78, 97, 109, 101, 32>>, JsString(<<32, 74, 111, 32>>)),
   \* "Company", "Acme"
   Cell(<<67, 111, 109, 112, 97, 110, 121>>, JsString(<<65, 99, 109, 101>>)),
   \* "Company", " "
   Cell(<<67, 111, 109, 112, 97, 110, 121>>, JsString(<<32>>)),
   \* "Priorty", "2"
   Cell(<<80, 114, 105, 111, 114, 116, 121>>, JsString(<<50>>)),
   \* "Priorty"
   Cell(<<80, 114, 105, 111, 114, 116, 121>>, JsNumber(30)),
   \* "Priorty"
   Cell(<<80, 114, 105, 111, 114, 116, 121>>, JsNumber(25)),
   \* "Priorty", "N/A"
   Cell(<<80, 114, 105, 111, 114, 116, 121>>, JsString(<<78, 47, 65>>)),
   \* "Date"
   Cell(<<68, 97, 116, 101>>, JsNumber(453660)),
   \* "Date", "2024-03-15"
   Cell(<<68, 97, 116, 101>>, JsString(<<50, 48, 50, 52, 45, 48, 51, 45, 49, 53>>)),
   \* "Date", "not a date"
   Cell(<<68, 97, 116, 101>>, JsString(<<110, 111, 116, 32, 97, 32, 100, 97, 116, 101>>)),
   \* "Notes", "hi"
   Cell(<<78, 111, 116, 101, 115>>, JsString(<<104, 105>>)),
   \* "Notes", " "
   Cell(<<78, 111, 116, 101, 115>>, JsString(<<32>>)),
   \* " Documents Provided", "yes"
   Cell(<<32, 68, 111, 99, 117, 109, 101, 110, 116, 115, 32, 80, 114, 111, 118, 105, 100, 101, 100>>, JsString(<<121, 101, 115>>)),
   \* "Sector", "Tech"
   Cell(<<83, 101, 99, 116, 111, 114>>, JsString(<<84, 101, 99, 104>>)),
   \* "Sector"
   Cell(<<83, 101, 99, 116, 111, 114>>, JsString(<<>>)),
   \* "Nickname", "JD"
   Cell(<<78, 105, 99, 107, 110, 97, 109, 101>>, JsString(<<74, 68>>)),
   \* "Comments", "c1"
   Cell(<<67, 111, 109, 109, 101, 110, 116, 115>>, JsString(<<99, 49>>)),
   \* "Rank", "abc"
   Cell(<<82, 97, 110, 107>>, JsString(<<97, 98, 99>>)),
   \* 0
   \* "Rank"
   Cell(<<82, 97, 110, 107>>, JsNumber(0)),
   \* 4
   \* "Rank"
   Cell(<<82, 97, 110, 107>>, JsNumber(40)),
   \* "Firm", "Beta"
   Cell(<<70, 105, 114, 109>>, JsString(<<66, 101, 116, 97>>)),
   \* "constructor", "x"
   Cell(<<99, 111, 110, 115, 116, 114, 117, 99, 116, 111, 114>>, JsString(<<120>>))}

\* Rows of at most MaxColumns cells; the keys of an object are distinct.
Rows ==
  {row \in UNION {[1 .. n -> Cells] : n \in 0 .. MaxColumns} :
     \A a, b \in 1 .. Len(row) : a # b => row[a].key # row[b].key}

\* The sourceSheet argument: none, or "Q1".
\* "Q1"
SheetNames == {<<>>, <<81, 49>>}

\* A header and a variant of it are handed to the column mapper.
InitColumn ==
  /\ mpc = "column"
  /\ \E base \in BaseHeaders :
       \E at \in 0 .. Len(base) :
         \E positions \in {{}, {1, at + 1}, 1 .. Len(base)} :
           \E sep \in Separators :
             \E pad \in Paddings :
               /\ baseHeader = base
               /\ header = Variant(base, positions, at, sep, pad)
  /\ cellValue = JsNull
  /\ timeZone = 0
  /\ sheetRows = <<>>
  /\ sheetName = <<>>
  /\ out = <<>>

\* A cell cellValue is handed to the cellValue normalizers.
InitValue ==
  /\ mpc = "cellValue"
  /\ cellValue \in CellValues
  /\ timeZone \in TimeZones
  /\ header = <<>>
  /\ baseHeader = <<>>
  /\ sheetRows = <<>>
  /\ sheetName = <<>>
  /\ out = <<>>

\* A sheet of one row is handed to mapToContacts.
InitRows ==
  /\ mpc = "rows"
  /\ \E row \in Rows : sheetRows = <<row>>
  /\ sheetName \in SheetNames
  /\ timeZone \in TimeZones
  /\ header = <<>>
  /\ baseHeader = <<>>
  /\ cellValue = JsNull
  /\ out = <<>>

InitMap ==
  /\ InitColumn \/ InitValue \/ InitRows
  /\ onProgress = FALSE
  /\ calls = <<>>
  /\ inflight = {}
  /\ ImportIdle
  /\ ExportIdle
  /\ WizardIdle
  /\ AttachIdle
  /\ PolicyIdle

----------------------------------------------------------------------------

(* Sheet discovery: getExcelSheets, parseExcelFile, parseAllSheets *)

\* A cell of the grid of a sheet that holds nothing.
EmptyCell == [t |-> "empty", n |-> 0, s |-> <<>>]

\* The object that sheet_to_json makes of one row of the grid: a property
\* per header; a cell that holds nothing gives null when defval is null and
\* no property when defval is not passed.
RECURSIVE JsonRow(_, _, _)
JsonRow(headers, gridRow, defval) ==
  IF headers = <<>> THEN <<>>
  ELSE LET rest == JsonRow(Tail(headers), Tail(gridRow), defval)
       IN  IF gridRow[1] # EmptyCell
             THEN <<Cell(headers[1], gridRow[1])>> \o rest
             ELSE IF defval THEN <<Cell(headers[1], JsNull)>> \o rest
             ELSE rest

\* XLSX.utils.sheet_to_json(sheet, {raw: true, defval: null}) when defval is
\* TRUE and XLSX.utils.sheet_to_json(sheet) when it is FALSE: the rows of
\* the grid below the header row that hold a cell, as objects.
sheet_to_json(sheet, defval) ==
  LET filled == SelectSeq(sheet.grid,
                          LAMBDA r : \E c \in DOMAIN r : r[c] # EmptyCell)
  IN  [k \in 1 .. Len(filled) |-> JsonRow(sheet.headers, filled[k], defval)]

\* A test of the sheet name that does not fold its case.
NotDefinitionsWrong(title) ==
  \* "definitions"
  title # <<100, 101, 102, 105, 110, 105, 116, 105, 111, 110, 115>>

\* name.toLowerCase() !== 'definitions'
NotDefinitions(title) ==
  \* "definitions"
  ToLowerCase(title) # <<100, 101, 102, 105, 110, 105, 116, 105, 111, 110, 115>>

\* workbook.SheetNames, as a sequence of the sheets themselves.
SheetsNamed(workbook) == SelectSeq(workbook, LAMBDA s : NotDefinitions(s.name))

\* getExcelSheets: the SheetInfo list the promise resolves with.
getExcelSheets(workbook) ==
  LET named == SheetsNamed(workbook)
      infos == [k \in 1 .. Len(named) |->
                  [name |-> named[k].name,
                   rowCount |-> Len(sheet_to_json(named[k], FALSE))]]
  IN  SelectSeq(infos, LAMBDA s : s.rowCount > 0)

\* parseExcelFile: the rows of the sheet named, or of the first sheet that
\* is not the definitions sheet, or of the first sheet.
parseExcelFile(workbook, target) ==
  LET named == SheetsNamed(workbook)
      targetSheet == IF target # <<>> THEN target
                     ELSE IF named # <<>> THEN named[1].name
                     ELSE workbook[1].name
      found == SelectSeq(workbook, LAMBDA s : s.name = targetSheet)
  IN  sheet_to_json(found[1], TRUE)

\* parseAllSheets: the sheets with their rows.
parseAllSheets(workbook) ==
  LET named == SheetsNamed(workbook)
      allData == [k \in 1 .. Len(named) |->
                    [sheetName |-> named[k].name,
                     data |-> sheet_to_json(named[k], TRUE)]]
  IN  SelectSeq(allData, LAMBDA s : Len(s.data) > 0)

----------------------------------------------------------------------------
(* ExcelImport: the import dialog *)

RECURSIVE allContacts(_, _, _)

EndsWith(s, suffix) ==
  /\ Len(s) >= Len(suffix)
  /\ SubSeq(s, Len(s) - Len(suffix) + 1, Len(s)) = suffix

validTypes ==
  {"application/vnd.openxmlformats-officedocument.spreadsheetml.sheet",
   "application/vnd.ms-excel",
   "text/csv"}

\* The file type test of handleFileSelect.
isExcel(selectedFile) ==
  \* ".xlsx"
  \/ EndsWith(selectedFile.name, <<46, 120, 108, 115, 120>>)
  \* ".xls"
  \/ EndsWith(selectedFile.name, <<46, 120, 108, 115>>)
  \* ".csv"
  \/ EndsWith(selectedFile.name, <<46, 99, 115, 118>>)
  \/ selectedFile.type \in validTypes

\* The messages that setError is called with.
NotExcelMsg == <<"Please upload an Excel file (.xlsx, .xls) or CSV file">>

NoSheetsMsg == <<"No data sheets found in the file">>

ReadFailedMsg == <<"Failed to read file">>

ImportThrownMsg == <<"Import failed">>

\* A promise that a handler awaits, with what its continuation closed over.
Awaited(kind, selectedFile, target, selection, cs) ==
  [kind |-> kind, file |-> selectedFile, sheet |-> target,
   selection |-> selection, contacts |-> cs]

\* The promises awaited form a bag: they settle in any order, and two of
\* them may have closed over the same values.
Await(bag, p) == bag (+) SetToBag({p})

Settle(bag, p) == bag (-) SetToBag({p})

\* Array.prototype.includes on an array of strings.
Includes(s, e) == \E k \in DOMAIN s : s[k] = e

\* resetState()
resetState ==
  InitialWizard(step', file', sheets', selectedSheets', previewData',
                importing', wizardResult', wizardError')

\* The batch loop of importContacts, where errs[b] is the error of the reply
\* to the insert of batch b, or Null.
RECURSIVE BatchLoop(_, _, _, _)
BatchLoop(res, vc, i0, errs) ==
  IF i0 < Len(vc)
    THEN LET batch == BatchAt(vc, i0)
             message == errs[BatchNumber(i0)]
         IN  BatchLoop(IF message # Null
                         THEN OnInsertError(res, i0, batch, message)
                         ELSE OnInsertOk(res, batch),
                       vc, i0 + batchSize, errs)
    ELSE res

\* The ImportResult importContacts(cs) resolves with when auth.getUser()
\* yields u and the inserts are replied to with errs.
importContacts(cs, u, errs) ==
  IF ~IsAuthenticated(u)
    THEN [InitialResult EXCEPT !.success = FALSE,
                               !.errors = <<NotAuthenticatedMsg>>]
    ELSE LET vc == SelectSeq(cs, HasName)
         IN  IF Len(vc) = 0
               THEN [InitialResult EXCEPT !.success = FALSE,
                                          !.errors = <<NoValidContactsMsg>>]
               ELSE Finish(BatchLoop(InitialResult, vc, 0, errs), cs, vc)

\* The results importContacts(cs) can resolve with.
ImportResults(cs) ==
  LET batches == (Len(SelectSeq(cs, HasName)) + batchSize - 1) \div batchSize
  IN  {importContacts(cs, u, errs) :
         u \in Users \cup {Null},
         errs \in [1 .. batches -> {Null} \cup ErrorMessages]}

\* What the handlers of ExcelImport leave alone.
OutsideWizard ==
  UNCHANGED <<importVars, exportVars, mapVars, attachVars, policyVars,
              onProgress, calls, inflight>>

\* handleFileSelect up to its first await.
HandleFileSelect ==
  /\ isOpen
  /\ step = "upload"
  /\ \E selectedFile \in userFiles :
       IF ~isExcel(selectedFile)
         THEN /\ wizardError' = NotExcelMsg
              /\ UNCHANGED <<file, awaited>>
         ELSE /\ BagCardinality(awaited) < MaxAwaited
              /\ wizardError' = NoMessage
              /\ file' = <<selectedFile>>
              /\ awaited' = Await(awaited,
                                   Awaited("getExcelSheets", selectedFile,
                                           <<>>, <<>>, <<>>))
  /\ UNCHANGED <<step, sheets, selectedSheets, previewData, importing,
                 wizardResult, isOpen, notified, userFiles>>
  /\ OutsideWizard

\* handleFileSelect from `await getExcelSheets(selectedFile)` to its next
\* await or to its end.
SheetsReturn ==
  /\ \E p \in BagToSet(awaited) :
       LET sheetList == getExcelSheets(p.file.workbook)
       IN  /\ p.kind = "getExcelSheets"
           /\ \/ /\ ~p.file.readable
                 /\ wizardError' = ReadFailedMsg
                 /\ awaited' = Settle(awaited, p)
                 /\ UNCHANGED <<step, sheets, selectedSheets>>
              \/ /\ p.file.readable
                 /\ Len(sheetList) = 0
                 /\ wizardError' = NoSheetsMsg
                 /\ awaited' = Settle(awaited, p)
                 /\ UNCHANGED <<step, sheets, selectedSheets>>
              \/ /\ p.file.readable
                 /\ Len(sheetList) = 1
                 /\ awaited' = Await(Settle(awaited, p),
                                      Awaited("parseExcelFile", p.file,
                                              sheetList[1].name, <<>>, <<>>))
                 /\ UNCHANGED <<step, sheets, selectedSheets, wizardError>>
              \/ /\ p.file.readable
                 /\ Len(sheetList) > 1
                 /\ sheets' = sheetList
                 /\ selectedSheets' =
                      [n \in 1 .. Len(sheetList) |-> sheetList[n].name]
                 /\ step' = "select-sheets"
                 /\ awaited' = Settle(awaited, p)
                 /\ UNCHANGED wizardError
  /\ UNCHANGED <<file, previewData, importing, wizardResult, isOpen,
                 notified, userFiles>>
  /\ OutsideWizard

\* handleFileSelect from `await parseExcelFile(...)` to its end.
ParseReturn ==
  /\ \E p \in BagToSet(awaited) :
       LET rawData == parseExcelFile(p.file.workbook, p.sheet)
       IN  /\ p.kind = "parseExcelFile"
           /\ awaited' = Settle(awaited, p)
           /\ \/ /\ ~p.file.readable
                 /\ wizardError' = ReadFailedMsg
                 /\ UNCHANGED <<step, previewData>>
              \/ /\ p.file.readable
                 /\ previewData' =
                      mapToContacts(rawData, <<>>, timeZone)
                 /\ step' = "preview"
                 /\ UNCHANGED wizardError
  /\ UNCHANGED <<file, sheets, selectedSheets, importing, wizardResult,
                 isOpen, notified, userFiles>>
  /\ OutsideWizard

\* handleSheetToggle(sheetName) on a check box of the sheet list.
HandleSheetToggle ==
  /\ isOpen
  /\ step = "select-sheets"
  /\ \E k \in DOMAIN sheets :
       selectedSheets' =
         IF Includes(selectedSheets, sheets[k].name)
           THEN SelectSeq(selectedSheets, LAMBDA s : s # sheets[k].name)
           ELSE Append(selectedSheets, sheets[k].name)
  /\ UNCHANGED <<step, file, sheets, previewData, importing, wizardResult,
                 wizardError, isOpen, notified, awaited, userFiles>>
  /\ OutsideWizard

\* handleSheetsConfirm up to its await; the button is disabled while no
\* sheet is selected.
HandleSheetsConfirm ==
  /\ isOpen
  /\ step = "select-sheets"
  /\ Len(selectedSheets) # 0
  /\ IF file = <<>>
       THEN UNCHANGED <<wizardError, awaited>>
       ELSE /\ BagCardinality(awaited) < MaxAwaited
            /\ wizardError' = NoMessage
            /\ awaited' = Await(awaited,
                                 Awaited("parseAllSheets", file[1], <<>>,
                                         selectedSheets, <<>>))
  /\ UNCHANGED <<step, file, sheets, selectedSheets, previewData, importing,
                 wizardResult, isOpen, notified, userFiles>>
  /\ OutsideWizard

\* A loop that takes the first sheet whether it is selected or not.
allContactsFirstUnfiltered(allSheetsData, selection, tz) ==
  IF allSheetsData = <<>> THEN <<>>
  ELSE mapToContacts(allSheetsData[1].data, allSheetsData[1].sheetName, tz)
       \o allContacts(Tail(allSheetsData), selection, tz)

\* The contacts of the sheets of allSheetsData that selection includes.
allContacts(allSheetsData, selection, tz) ==
  IF allSheetsData = <<>> THEN <<>>
  ELSE (IF Includes(selection, allSheetsData[1].sheetName)
          THEN mapToContacts(allSheetsData[1].data,
                             allSheetsData[1].sheetName, tz)
          ELSE <<>>)
       \o allContacts(Tail(allSheetsData), selection, tz)

\* handleSheetsConfirm from `await parseAllSheets(file)` to its end.
ConfirmReturn ==
  /\ \E p \in BagToSet(awaited) :
       LET allSheetsData == parseAllSheets(p.file.workbook)
       IN  /\ p.kind = "parseAllSheets"
           /\ awaited' = Settle(awaited, p)
           /\ \/ /\ ~p.file.readable
                 /\ wizardError' = ReadFailedMsg
                 /\ UNCHANGED <<step, previewData>>
              \/ /\ p.file.readable
                 /\ previewData' = allContacts(allSheetsData,
                                               p.selection, timeZone)
                 /\ step' = "preview"
                 /\ UNCHANGED wizardError
  /\ UNCHANGED <<file, sheets, selectedSheets, importing, wizardResult,
                 isOpen, notified, userFiles>>
  /\ OutsideWizard

\* The Back button of the sheet selection.
BackFromSheets ==
  /\ isOpen
  /\ step = "select-sheets"
  /\ resetState
  /\ UNCHANGED <<isOpen, notified, awaited, userFiles>>
  /\ OutsideWizard

\* The Back button of the preview.
BackFromPreview ==
  /\ isOpen
  /\ step = "preview"
  /\ IF Len(sheets) > 1
       THEN /\ step' = "select-sheets"
            /\ UNCHANGED <<file, sheets, selectedSheets, previewData,
                           importing, wizardResult, wizardError>>
       ELSE resetState
  /\ UNCHANGED <<isOpen, notified, awaited, userFiles>>
  /\ OutsideWizard

\* handleImport up to its await; the button is disabled while no contact of
\* the preview has a name.
HandleImport ==
  /\ isOpen
  /\ step = "preview"
  /\ Len(SelectSeq(previewData, HasName)) # 0
  /\ BagCardinality(awaited) < MaxAwaited
  /\ step' = "importing"
  /\ importing' = TRUE
  /\ wizardError' = NoMessage
  /\ awaited' = Await(awaited,
                       Awaited("importContacts", <<>>, <<>>, <<>>,
                               previewData))
  /\ UNCHANGED <<file, sheets, selectedSheets, previewData, wizardResult,
                 isOpen, notified, userFiles>>
  /\ OutsideWizard

\* handleImport from `await importContacts(...)` to its end: the promise
\* resolves with an ImportResult or rejects.
ImportReturn ==
  /\ \E p \in BagToSet(awaited) :
       LET results == ImportResults(p.contacts)
       IN  /\ p.kind = "importContacts"
           /\ awaited' = Settle(awaited, p)
           /\ \/ \E importResult \in results :
                   /\ wizardResult' =
                        <<[imported |-> importResult.imported,
                           skipped |-> importResult.skipped,
                           errors |-> importResult.errors]>>
                   /\ step' = "complete"
                   /\ notified' = TRUE
                   /\ UNCHANGED wizardError
              \/ /\ wizardError' = ImportThrownMsg
                 /\ UNCHANGED <<step, wizardResult, notified>>
           /\ importing' = FALSE
  /\ UNCHANGED <<file, sheets, selectedSheets, previewData, isOpen,
                 userFiles>>
  /\ OutsideWizard

\* handleClose, on the close button, on Cancel and on Done.
HandleClose ==
  /\ isOpen
  /\ IF ~importing
       THEN /\ resetState
            /\ isOpen' = FALSE
       ELSE UNCHANGED <<step, file, sheets, selectedSheets, previewData,
                        importing, wizardResult, wizardError, isOpen>>
  /\ UNCHANGED <<notified, awaited, userFiles>>
  /\ OutsideWizard

----------------------------------------------------------------------------
(* The inputs of ExcelImport *)

Sheet(title, headers, grid) ==
  [name |-> title, headers |-> headers, grid |-> grid]

\* The sheets of the workbooks: two spellings of the definitions sheet, a
\* sheet of two rows (one without a name) and a blank row between them, a
\* sheet of one row, and a sheet of a header row only.
Definitions ==
  \* "Definitions", "Name", "Zed"
  Sheet(<<68, 101, 102, 105, 110, 105, 116, 105, 111, 110, 115>>, <<<<78, 97, 109, 101>>>>, << <<JsString(<<90, 101, 100>>)>> >>)

DEFINITIONS ==
  \* "DEFINITIONS", "Name", "Zed"
  Sheet(<<68, 69, 70, 73, 78, 73, 84, 73, 79, 78, 83>>, <<<<78, 97, 109, 101>>>>, << <<JsString(<<90, 101, 100>>)>> >>)

Q1 ==
  \* "Q1", "Name", "Notes"
  Sheet(<<81, 49>>, <<<<78, 97, 109, 101>>, <<78, 111, 116, 101, 115>>>>,
        \* "Jane", "hi"
        << <<JsString(<<74, 97, 110, 101>>), JsString(<<104, 105>>)>>,
           <<EmptyCell, EmptyCell>>,
           \* " "
           <<JsString(<<32>>), EmptyCell>> >>)

\* "Q2", "Name", "Jo"
Q2 == Sheet(<<81, 50>>, <<<<78, 97, 109, 101>>>>, << <<JsString(<<74, 111>>)>> >>)

\* "Q3", "Name"
Q3 == Sheet(<<81, 51>>, <<<<78, 97, 109, 101>>>>, <<>>)

\* Two workbooks; the workbooks of the user are their runs of at most
\* MaxSheets sheets.
SheetOrders == {<<Q2, DEFINITIONS, Q1, Q3>>, <<Definitions, Q2>>}

Runs(o) == {SubSeq(o, a, b) : a \in 1 .. Len(o), b \in 1 .. Len(o)}

Workbooks ==
  {w \in UNION {Runs(o) : o \in SheetOrders} :
     Len(w) >= 1 /\ Len(w) <= MaxSheets}

\* A file; the FileReader fails on a file that is not readable.
ExcelFile(title, type, readable, workbook) ==
  [name |-> title, type |-> type, readable |-> readable,
   workbook |-> workbook]

\* A second workbook, of one sheet named as a sheet of the pool is.
OtherWorkbook ==
  \* "Q2", "Name"
  <<Sheet(<<81, 50>>, <<<<78, 97, 109, 101>>>>,
          \* "Al", "Bo"
          << <<JsString(<<65, 108>>)>>, <<JsString(<<66, 111>>)>> >>)>>

\* The user has a workbook "a.xlsx" and a second workbook "b" at hand, or a
\* text file "n.txt" and a file "c.csv" that cannot be read.
InitWizard ==
  /\ InitialWizard(step, file, sheets, selectedSheets, previewData,
                   importing, wizardResult, wizardError)
  /\ isOpen = TRUE
  /\ notified = FALSE
  /\ awaited = EmptyBag
  /\ \/ \E w \in Workbooks :
          userFiles =
            \* "a.xlsx"
            {ExcelFile(<<97, 46, 120, 108, 115, 120>>, "", TRUE, w),
             \* "b"
             ExcelFile(<<98>>, "application/vnd.ms-excel", TRUE,
                       OtherWorkbook)}
     \/ userFiles =
          \* "n.txt"
          {ExcelFile(<<110, 46, 116, 120, 116>>, "text/plain", TRUE, <<>>),
           \* "c.csv"
           ExcelFile(<<99, 46, 99, 115, 118>>, "", FALSE, <<>>)}
  /\ onProgress = FALSE
  /\ calls = <<>>
  /\ inflight = {}
  /\ ImportIdle
  /\ ExportIdle
  /\ MapIdle
  /\ AttachIdle
  /\ PolicyIdle

----------------------------------------------------------------------------

(* Attachments of a contact: FileUpload and the contact page *)

\* `${user.id}/${contactId}/${Date.now()}-${random}.${fileExt}`: the k-th
\* path made for the contact.
PathOf(k) == <<"u1/c1/", k>>

\* The row that the insert of the k-th file returns.
AttachmentRow(k) == [id |-> k, file_path |-> PathOf(k)]

PathsOf(rows) == {r.file_path : r \in rows}

StorageErrorMsg == <<"storage error">>

UploadFailedMsg == <<"Failed to upload">>

\* What the handlers of the contact page leave alone.
OutsideAttachments ==
  UNCHANGED <<importVars, exportVars, mapVars, wizardVars, policyVars,
              onProgress, calls, inflight>>

\* fetchContact of the contact page: the attachments of the contact are
\* read into the `attachments` state.
FetchContact ==
  /\ fpc = "idle"
  /\ contactStored
  /\ listed' = attachmentRows
  /\ UNCHANGED <<fpc, binaries, attachmentRows, contactStored, pendingFiles,
                 newAttachments, deleting, nextPath, uploadError>>
  /\ OutsideAttachments

\* FileUpload.handleFileSelect up to `await supabase.auth.getUser()`.
SelectFiles ==
  /\ fpc = "idle"
  /\ contactStored
  /\ \E n \in 1 .. 2 :
       /\ nextPath + n - 1 <= MaxUploads
       /\ pendingFiles' = n
  /\ newAttachments' = {}
  /\ uploadError' = NoMessage
  /\ fpc' = "getUser"
  /\ UNCHANGED <<binaries, attachmentRows, contactStored, listed, deleting,
                 nextPath>>
  /\ OutsideAttachments

\* FileUpload.handleFileSelect from auth.getUser() to the first upload.
UploadGetUserReturn ==
  /\ fpc = "getUser"
  /\ \E u \in Users \cup {Null} :
       IF u = Null
         THEN /\ uploadError' = NotAuthenticatedMsg
              /\ fpc' = "idle"
              /\ pendingFiles' = 0
         ELSE /\ fpc' = "upload"
              /\ UNCHANGED <<uploadError, pendingFiles>>
  /\ UNCHANGED <<binaries, attachmentRows, contactStored, listed,
                 newAttachments, deleting, nextPath>>
  /\ OutsideAttachments

\* supabase.storage.from('attachments').upload(fileName, file) when it
\* succeeds.
StoreObject(objects, path) == objects \cup {path}

\* FileUpload.handleFileSelect from the upload of a file to the insert of
\* its row, or to the catch clause.
UploadReturn ==
  /\ fpc = "upload"
  /\ \/ /\ uploadError' = StorageErrorMsg
        /\ fpc' = "idle"
        /\ pendingFiles' = 0
        /\ UNCHANGED binaries
     \/ /\ binaries' = StoreObject(binaries, PathOf(nextPath))
        /\ fpc' = "insert"
        /\ UNCHANGED <<uploadError, pendingFiles>>
  /\ UNCHANGED <<attachmentRows, contactStored, listed, newAttachments,
                 deleting, nextPath>>
  /\ OutsideAttachments

\* FileUpload.handleFileSelect from the insert of a row to the next upload,
\* to onAttachmentsChange or to the catch clause.
InsertRowReturn ==
  /\ fpc = "insert"
  /\ nextPath' = nextPath + 1
  /\ \/ /\ uploadError' = UploadFailedMsg
        /\ fpc' = "idle"
        /\ pendingFiles' = 0
        /\ UNCHANGED <<attachmentRows, newAttachments, listed>>
     \/ /\ attachmentRows' = attachmentRows \cup {AttachmentRow(nextPath)}
        /\ newAttachments' = newAttachments \cup {AttachmentRow(nextPath)}
        /\ pendingFiles' = pendingFiles - 1
        /\ IF pendingFiles = 1
             THEN /\ listed' = listed \cup newAttachments'
                  /\ fpc' = "idle"
             ELSE /\ fpc' = "upload"
                  /\ UNCHANGED listed
        /\ UNCHANGED uploadError
  /\ UNCHANGED <<binaries, contactStored, deleting>>
  /\ OutsideAttachments

\* FileUpload.handleDelete(attachment) up to the storage call.
DeleteAttachment ==
  /\ fpc = "idle"
  /\ contactStored
  /\ \E attachment \in listed : deleting' = <<attachment>>
  /\ fpc' = "remove"
  /\ UNCHANGED <<binaries, attachmentRows, contactStored, listed,
                 pendingFiles, newAttachments, nextPath, uploadError>>
  /\ OutsideAttachments

\* FileUpload.handleDelete from storage.remove([file_path]), whose reply is
\* not looked at, to the delete of the row.
RemoveReturn ==
  /\ fpc = "remove"
  /\ \/ binaries' = binaries \ {deleting[1].file_path}
     \/ UNCHANGED binaries
  /\ fpc' = "deleteRow"
  /\ UNCHANGED <<attachmentRows, contactStored, listed, pendingFiles,
                 newAttachments, deleting, nextPath, uploadError>>
  /\ OutsideAttachments

\* FileUpload.handleDelete from the delete of the row to its end.
DeleteRowReturn ==
  /\ fpc = "deleteRow"
  /\ \/ UNCHANGED <<attachmentRows, listed>>
     \/ /\ attachmentRows' =
             {r \in attachmentRows : r.id # deleting[1].id}
        /\ listed' = {a \in listed : a.id # deleting[1].id}
  /\ deleting' = <<>>
  /\ fpc' = "idle"
  /\ UNCHANGED <<binaries, contactStored, pendingFiles, newAttachments,
                 nextPath, uploadError>>
  /\ OutsideAttachments

\* handleDelete of the contact page up to its first await.
DeleteContact ==
  /\ fpc = "idle"
  /\ contactStored
  /\ fpc' = IF listed # {} THEN "removeAll" ELSE "deleteContact"
  /\ UNCHANGED <<binaries, attachmentRows, contactStored, listed,
                 pendingFiles, newAttachments, deleting, nextPath,
                 uploadError>>
  /\ OutsideAttachments

\* handleDelete of the contact page from storage.remove(filePaths), whose
\* reply is not looked at, to the delete of the contact.
RemoveAllReturn ==
  /\ fpc = "removeAll"
  /\ \/ binaries' = binaries \ PathsOf(listed)
     \/ UNCHANGED binaries
  /\ fpc' = "deleteContact"
  /\ UNCHANGED <<attachmentRows, contactStored, listed, pendingFiles,
                 newAttachments, deleting, nextPath, uploadError>>
  /\ OutsideAttachments

\* handleDelete of the contact page from the delete of the contact to its
\* end; the rows of the attachments go with the contact (ON DELETE CASCADE).
DeleteContactReturn ==
  /\ fpc = "deleteContact"
  /\ \/ /\ fpc' = "idle"
        /\ UNCHANGED <<contactStored, attachmentRows>>
     \/ /\ contactStored' = FALSE
        /\ attachmentRows' = {}
        /\ fpc' = "left"
  /\ UNCHANGED <<binaries, listed, pendingFiles, newAttachments, deleting,
                 nextPath, uploadError>>
  /\ OutsideAttachments

\* The contact page of a contact without attachments is opened.
InitAttachments ==
  /\ fpc = "idle"
  /\ binaries = {}
  /\ attachmentRows = {}
  /\ contactStored = TRUE
  /\ listed = {}
  /\ pendingFiles = 0
  /\ newAttachments = {}
  /\ deleting = <<>>
  /\ nextPath = 1
  /\ uploadError = NoMessage
  /\ onProgress = FALSE
  /\ calls = <<>>
  /\ inflight = {}
  /\ ImportIdle
  /\ ExportIdle
  /\ MapIdle
  /\ WizardIdle
  /\ PolicyIdle

----------------------------------------------------------------------------

(* Row level security: the policies of the schema *)

\* The sessions a request can come with: two signed-in users and a visitor
\* who holds only the anon key.
Sessions ==
  { [uid |-> "u1", role |-> "authenticated"],
    [uid |-> "u2", role |-> "authenticated"],
    [uid |-> Null, role |-> "anon"] }

\* The relations with row level security enabled.
Relations == {"contacts", "attachments", "storage.objects"}

Buckets == {"attachments", "avatars"}

\* CREATE POLICY ... ON relation FOR command, one record per statement.
Policies ==
  { [relation |-> "contacts", command |-> "SELECT"],
    [relation |-> "contacts", command |-> "INSERT"],
    [relation |-> "contacts", command |-> "UPDATE"],
    [relation |-> "contacts", command |-> "DELETE"],
    [relation |-> "attachments", command |-> "SELECT"],
    [relation |-> "attachments", command |-> "INSERT"],
    [relation |-> "attachments", command |-> "DELETE"],
    [relation |-> "storage.objects", command |-> "INSERT"],
    [relation |-> "storage.objects", command |-> "SELECT"],
    [relation |-> "storage.objects", command |-> "DELETE"] }

\* The USING / WITH CHECK expression of a policy, for a session and a row:
\* auth.role() = 'authenticated', and for storage.objects also
\* bucket_id = 'attachments'.
Using(policy, session, row) ==
  /\ session.role = "authenticated"
  /\ policy.relation = "storage.objects" => row.bucket_id = "attachments"

\* With row level security enabled a command reaches a row only when some
\* policy of the relation for that command lets it.
Allowed(session, command, row) ==
  \E policy \in Policies :
    /\ policy.relation = row.relation
    /\ policy.command = command
    /\ Using(policy, session, row)

\* What the requests on the guarded relations leave alone.
OutsidePolicy ==
  UNCHANGED <<importVars, exportVars, mapVars, wizardVars, attachVars,
              onProgress, calls, inflight>>

\* The row a session writes: user_id (owner for storage.objects) is the id
\* of the signed-in user, as the client code passes it.
NewRow(session, relation, id, bucket) ==
  [ relation |-> relation, id |-> id, user_id |-> session.uid,
    bucket_id |-> bucket, updated_by |-> Null ]

\* An access the policies granted.
Grant(session, command, row) ==
  [by |-> session.uid, command |-> command, row |-> row]

\* INSERT of a row by a session.
PolicyInsert ==
  \E session \in Sessions, relation \in Relations,
     id \in 1 .. MaxPolicyRows, bucket \in Buckets :
    LET row == NewRow(session, relation, id,
                      IF relation = "storage.objects" THEN bucket
                      ELSE Null)
    IN /\ \A r \in policyRows : ~(r.relation = relation /\ r.id = id)
       /\ IF Allowed(session, "INSERT", row)
            THEN /\ policyRows' = policyRows \cup {row}
                 /\ granted' = Grant(session, "INSERT", row)
            ELSE /\ granted' = <<>>
                 /\ UNCHANGED policyRows
       /\ OutsidePolicy

\* SELECT of a row by a session.
PolicySelect ==
  \E session \in Sessions, row \in policyRows :
    /\ granted' = IF Allowed(session, "SELECT", row)
                    THEN Grant(session, "SELECT", row)
                    ELSE <<>>
    /\ UNCHANGED policyRows
    /\ OutsidePolicy

\* UPDATE of a row by a session.
PolicyUpdate ==
  \E session \in Sessions, row \in policyRows :
    /\ IF Allowed(session, "UPDATE", row)
         THEN /\ policyRows' =
                   (policyRows \ {row})
                     \cup {[row EXCEPT !.updated_by = session.uid]}
              /\ granted' = Grant(session, "UPDATE", row)
         ELSE /\ granted' = <<>>
              /\ UNCHANGED policyRows
    /\ OutsidePolicy

\* DELETE of a row by a session.
PolicyDelete ==
  \E session \in Sessions, row \in policyRows :
    /\ IF Allowed(session, "DELETE", row)
         THEN /\ policyRows' = policyRows \ {row}
              /\ granted' = Grant(session, "DELETE", row)
         ELSE /\ granted' = <<>>
              /\ UNCHANGED policyRows
    /\ OutsidePolicy

\* The schema has just been installed: the tables and the bucket are empty.
InitPolicy ==
  /\ policyRows = {}
  /\ granted = <<>>
  /\ onProgress = FALSE
  /\ calls = <<>>
  /\ inflight = {}
  /\ ImportIdle
  /\ ExportIdle
  /\ MapIdle
  /\ WizardIdle
  /\ AttachIdle

----------------------------------------------------------------------------

\* One invocation of importContacts.
NextImport ==
  \/ ImportCall
  \/ GetUserReturn
  \/ InsertReturn

SpecImport == InitImport /\ [][NextImport]_vars

\* One invocation of exportAllData.
NextExport ==
  \/ ExportCall
  \/ ContactsReturn
  \/ AttachmentsReturn
  \/ DownloadReturn
  \/ GenerateReturn

SpecExport == InitExport /\ [][NextExport]_vars

\* One application of the column mapper, of a normalizer or of mapToContacts.
NextMap ==
  \/ NormalizeColumn
  \/ ParsePriority
  \/ ParseDate
  \/ MapToContacts

SpecMap == InitMap /\ [][NextMap]_vars

\* The dialog from its opening on.
NextWizard ==
  \/ HandleFileSelect
  \/ SheetsReturn
  \/ ParseReturn
  \/ HandleSheetToggle
  \/ HandleSheetsConfirm
  \/ ConfirmReturn
  \/ BackFromSheets
  \/ BackFromPreview
  \/ HandleImport
  \/ ImportReturn
  \/ HandleClose

SpecWizard == InitWizard /\ [][NextWizard]_vars

\* The contact page from its opening on, one handler at a time.
NextAttachments ==
  \/ FetchContact
  \/ SelectFiles
  \/ UploadGetUserReturn
  \/ UploadReturn
  \/ InsertRowReturn
  \/ DeleteAttachment
  \/ RemoveReturn
  \/ DeleteRowReturn
  \/ DeleteContact
  \/ RemoveAllReturn
  \/ DeleteContactReturn

SpecAttachments == InitAttachments /\ [][NextAttachments]_vars

\* Requests of any session on the relations the policies guard.
NextPolicy ==
  \/ PolicyInsert
  \/ PolicySelect
  \/ PolicyUpdate
  \/ PolicyDelete

SpecPolicy == InitPolicy /\ [][NextPolicy]_vars

\* One invocation of either pipeline, or one application of the mapper.
Init == InitImport \/ InitExport \/ InitMap

Next == NextImport \/ NextExport \/ NextMap

Spec == Init /\ [][Next]_vars

----------------------------------------------------------------------------
(* Observations used by the properties *)

InsertCalls == SelectSeq(calls, LAMBDA c : c.kind = "insert")

ProgressCalls == SelectSeq(calls, LAMBDA c : c.kind = "progress")

Percents == [k \in 1 .. Len(ProgressCalls) |-> ProgressCalls[k].percent]

\* A contact whose name has a character that is not white space.
Named(c) == \E p \in 1 .. Len(c.name) : c.name[p] \notin WhiteSpace

NamedContacts == SelectSeq(contacts, Named)

NamelessCount == Len(contacts) - Len(NamedContacts)

\* ceil(n / batchSize)
BatchCount(n) == (n + batchSize - 1) \div batchSize

\* The batches whose insert was answered with an error.
FailedBatches == {k \in 1 .. Len(replies) : replies[k] # Null}

\* The number of rows in those of the first k submitted batches whose
\* insert failed (failed = TRUE) or succeeded (failed = FALSE).
RECURSIVE RowsInBatches(_, _)
RowsInBatches(k, failed) ==
  IF k = 0
    THEN 0
    ELSE RowsInBatches(k - 1, failed)
           + (IF (replies[k] # Null) = failed
                THEN Len(InsertCalls[k].rows)
                ELSE 0)

\* The names of the rows of the first k insert requests, in order.
RECURSIVE InsertedNames(_)
InsertedNames(k) ==
  IF k = 0
    THEN <<>>
    ELSE InsertedNames(k - 1)
           \o [r \in 1 .. Len(InsertCalls[k].rows) |-> InsertCalls[k].rows[r].name]

\* importContacts has returned after running its batch loop.
ImportRanBatches == ipc = "done" /\ Len(InsertCalls) > 0

----------------------------------------------------------------------------
(* Properties of importContacts *)

\* C1: when the insert of a batch fails, exactly one error message with the
\* 1-based index of that batch is recorded, the rows of the batch are
\* counted as skipped, no row is submitted a second time and the later
\* batches are still submitted; 120 named rows with only batch 2 failing
\* give imported = 70, skipped = 50 and the one message of batch 2.
C1_BatchFailureIsLocal ==
  ImportRanBatches =>
    /\ Len(replies) = Len(InsertCalls)
    /\ Len(InsertCalls) = BatchCount(Len(NamedContacts))
    /\ \A k \in FailedBatches :
         /\ Cardinality({e \in 1 .. Len(result.errors) :
                           result.errors[e][2] = k}) = 1
         /\ \E e \in 1 .. Len(result.errors) :
              result.errors[e] = <<"Batch ", k, " failed: ", replies[k]>>
    /\ result.skipped - NamelessCount
         = RowsInBatches(Len(InsertCalls), TRUE)
    /\ \A k1, k2 \in 1 .. Len(InsertCalls) :
         k1 # k2 =>
           \A r1 \in 1 .. Len(InsertCalls[k1].rows) :
             \A r2 \in 1 .. Len(InsertCalls[k2].rows) :
               InsertCalls[k1].rows[r1].name # InsertCalls[k2].rows[r2].name
    /\ (Len(contacts) = 120 /\ NamelessCount = 0 /\ FailedBatches = {2}) =>
         /\ result.imported = 70
         /\ result.skipped = 50
         /\ result.errors = << <<"Batch ", 2, " failed: ", replies[2]>> >>

C1_Witness ==
  /\ ImportRanBatches
  /\ Len(contacts) = 120
  /\ NamelessCount = 0
  /\ FailedBatches = {2}
  /\ Len(InsertCalls) = 3

\* C2: the named contacts are submitted in input order in consecutive
\* batches of exactly 50 rows, except a last batch of 1 to 50 rows: n named
\* contacts give ceil(n / 50) insert requests, every named contact is in
\* exactly one of them, and each row carries the id of the acting user.
C2_BatchesPartitionValidContacts ==
  (ipc = "done" /\ user # Null) =>
    LET n == Len(NamedContacts)
        b == Len(InsertCalls)
    IN  /\ b = BatchCount(n)
        /\ \A k \in 1 .. b - 1 : Len(InsertCalls[k].rows) = 50
        /\ b > 0 => Len(InsertCalls[b].rows) \in 1 .. 50
        /\ InsertedNames(b) = [k \in 1 .. n |-> NamedContacts[k].name]
        /\ \A k \in 1 .. b :
             \A r \in 1 .. Len(InsertCalls[k].rows) :
               InsertCalls[k].rows[r].user_id = user
        /\ n = 120 =>
             [k \in 1 .. b |-> Len(InsertCalls[k].rows)] = <<50, 50, 20>>

C2_Witness ==
  /\ ipc = "done"
  /\ Len(contacts) = 120
  /\ ~Named(contacts[1])
  /\ Len(InsertCalls) = 3
  /\ InsertCalls[1].rows[50].name = contacts[51].name
  /\ [k \in 1 .. 3 |-> Len(InsertCalls[k].rows)] = <<50, 50, 19>>

\* C3: no nameless contact is ever part of an insert request, and when
\* importContacts has returned for an authenticated user, skipped is the
\* number of nameless input rows plus the rows of the failed batches and
\* imported is the number of rows of the batches that succeeded.
C3_SkippedCountsNamelessAndFailedRows ==
  /\ \A k \in 1 .. Len(InsertCalls) :
       \A r \in 1 .. Len(InsertCalls[k].rows) : Named(InsertCalls[k].rows[r])
  /\ (ipc = "done" /\ user # Null) =>
       /\ result.skipped
            = NamelessCount + RowsInBatches(Len(InsertCalls), TRUE)
       /\ result.imported = RowsInBatches(Len(InsertCalls), FALSE)

C5_NotAuthenticatedIsTerminal ==
  /\ InsertCalls # <<>> => user # Null
  /\ (ipc = "done" /\ user = Null) =>
       /\ result.success = FALSE
       /\ result.imported = 0
       /\ result.errors = <<NotAuthenticatedMsg>>
       /\ \A k \in 1 .. Len(calls) : calls[k].kind = "getUser"

C5_Witness ==
  /\ ipc = "done"
  /\ user = Null
  /\ Len(NamedContacts) > batchSize

C9_SuccessIffNoBatchFailed ==
  ImportRanBatches =>
    /\ result.success = (FailedBatches = {})
    /\ Len(result.errors) = Cardinality(FailedBatches)
    /\ \A e \in 1 .. Len(result.errors) :
         /\ result.errors[e][2] \in FailedBatches
         /\ result.errors[e][4] = replies[result.errors[e][2]]
    /\ \A e1, e2 \in 1 .. Len(result.errors) :
         e1 < e2 => result.errors[e1][2] < result.errors[e2][2]

C9_Witness ==
  /\ ImportRanBatches
  /\ FailedBatches = {1, 3}
  /\ Len(result.errors) = 2

\* C10: at most one storage request is in flight at any time: a batch is
\* submitted only when every earlier insert has been answered, and a
\* download is started only when the previous one has settled.
C10_OneRequestInFlight ==
  /\ Cardinality(inflight) <= 1
  /\ Len(InsertCalls) <= Len(replies) + 1
  /\ ipc = "insert" =>
       inflight = {InsertCalls[Len(InsertCalls)]}
  /\ xpc = "download" =>
       inflight = {DownloadCall(
         contactsWithAttachments[xi + 1].attachments[xj + 1].file_path)}

C10_Witness ==
  /\ ipc = "insert"
  /\ Len(replies) = 2
  /\ \E r \in inflight : r.kind = "insert" /\ Len(r.rows) = 20

----------------------------------------------------------------------------
(* Properties of exportAllData *)

\* C6: within one run of exportAllData the percent values passed to the
\* progress callback never decrease.
C6_ExportPercentNonDecreasing ==
  xpc # "idle" =>
    \A p, q \in 1 .. Len(Percents) : p < q => Percents[p] <= Percents[q]

\* C7: every percent value that exportAllData passes to the progress
\* callback is an integer from 0 to 100, and the value reported for a
\* download lies between 25 and 95.
C7_ExportPercentInRange ==
  xpc # "idle" =>
    \A k \in 1 .. Len(ProgressCalls) :
      /\ ProgressCalls[k].percent \in 0 .. 100
      /\ ProgressCalls[k].message[1] = "Downloading: " =>
           ProgressCalls[k].percent \in 25 .. 95

----------------------------------------------------------------------------
(* Observations of an export *)

CallsOfKind(kind) == SelectSeq(calls, LAMBDA c : c.kind = kind)

\* The rows of the attachments table that belong to the k-th contact.
MetadataRowsOf(k) ==
  {a \in 1 .. Len(dbAttachments) :
     dbAttachments[a].contact_id = dbContacts[k].id}

\* The contacts that have at least one attachment.
ContactsWithFiles == {k \in 1 .. Len(dbContacts) : MetadataRowsOf(k) # {}}

\* The name of the contact that owns the a-th attachment.
OwnerName(a) ==
  LET k == CHOOSE c \in 1 .. Len(dbContacts) :
             dbContacts[c].id = dbAttachments[a].contact_id
  IN  dbContacts[k].name

\* The outcome of the download of the a-th attachment, once it has settled.
Settled(a) ==
  \E d \in 1 .. Len(downloads) : downloads[d].path = dbAttachments[a].file_path

OutcomeOf(a) ==
  LET d == CHOOSE e \in 1 .. Len(downloads) :
             downloads[e].path = dbAttachments[a].file_path
  IN  downloads[d].outcome

Downloaded(a) == Settled(a) /\ OutcomeOf(a) = "data"

\* The archive handed to saveAs.
SavedZip == saved[1].content

----------------------------------------------------------------------------
(* Properties of exportAllData, continued *)

\* C11: with no contact to export, exportAllData rejects with 'No contacts
\* to export' (unless the contacts query itself failed) and never fetches
\* attachment metadata, downloads a file, generates the spreadsheet or the
\* archive, or saves a file.
C11_NoContactsFailsFast ==
  (xpc # "idle" /\ Len(dbContacts) = 0) =>
    /\ xpc \in {"start", "contacts", "failed"}
    /\ \A c \in 1 .. Len(calls) :
         calls[c] \in {SelectContactsCall,
                       ProgressCall(<<"Fetching contacts...">>, 5)}
    /\ zip = EmptyZip
    /\ saved = <<>>
    /\ xpc = "failed" =>
         \/ exportError = << <<"No contacts to export">> >>
         \/ \E m \in ErrorMessages :
              exportError = << <<"Failed to fetch contacts: ", m>> >>

C11_Witness ==
  /\ xpc = "failed"
  /\ Len(dbContacts) = 0
  /\ exportError = << <<"No contacts to export">> >>

\* C12: a download that fails, by an error result or by an exception,
\* leaves out only its own file: the export never rejects once the
\* downloads have begun, every attachment is downloaded, the archive holds
\* a file for exactly the attachments whose download succeeded, and it is
\* generated and saved.
C12_DownloadFailureSkipsOneFile ==
  /\ xpc = "failed" => CallsOfKind("download") = <<>>
  /\ xpc = "done" =>
       /\ exportError = <<>>
       /\ \A a \in 1 .. Len(dbAttachments) : Settled(a)
       /\ Len(CallsOfKind("download")) = Len(dbAttachments)
       /\ Len(CallsOfKind("generateAsync")) = 1
       /\ Len(saved) = 1
       /\ {<<e.folder, e.name>> : e \in SavedZip.files}
            = {<<sanitizeName(OwnerName(a)),
                 sanitizeName(dbAttachments[a].file_name)>> :
                 a \in {b \in 1 .. Len(dbAttachments) : Downloaded(b)}}

C12_Witness ==
  /\ xpc = "done"
  /\ Len(saved) = 1
  /\ \E a, b, c \in 1 .. Len(dbAttachments) :
       /\ OutcomeOf(a) = "error"
       /\ OutcomeOf(b) = "throw"
       /\ OutcomeOf(c) = "data"
       /\ \E e \in SavedZip.files : e.data = dbAttachments[c].file_path

\* C13: the saved archive has one subfolder under Attachments per contact
\* with at least one attachment, and none for the other contacts: the
\* number of subfolders is the number of contacts with an attachment.
C13_OneFolderPerContactWithFiles ==
  xpc = "done" =>
    /\ SavedZip.folders =
         {sanitizeName(dbContacts[k].name) : k \in ContactsWithFiles}
    /\ Cardinality(SavedZip.folders) = Cardinality(ContactsWithFiles)

\* C14: in the saved archive the subfolder of a contact (contacts having
\* distinct folder names) holds exactly one file per attachment of the
\* contact whose download succeeded.
C14_OneFilePerDownloadedAttachment ==
  (/\ xpc = "done"
   /\ \A k1, k2 \in 1 .. Len(dbContacts) :
        k1 # k2 => sanitizeName(dbContacts[k1].name)
                     # sanitizeName(dbContacts[k2].name)) =>
    \A k \in 1 .. Len(dbContacts) :
      Cardinality({e \in SavedZip.files :
                     e.folder = sanitizeName(dbContacts[k].name)})
        = Cardinality({a \in MetadataRowsOf(k) : Downloaded(a)})

\* C15: the spreadsheet row of a contact lists as Files Count the number of
\* attachment metadata rows of the contact, whatever the outcomes of the
\* downloads.
C15_FilesCountIsMetadataCount ==
  /\ xpc \in {"download", "generate", "done"} =>
       /\ Len(zip.excel) = Len(dbContacts)
       /\ \A k \in 1 .. Len(dbContacts) :
            /\ zip.excel[k].Name = dbContacts[k].name
            /\ zip.excel[k].FilesCount = Cardinality(MetadataRowsOf(k))
  /\ xpc = "done" => SavedZip.excel = zip.excel

C15_Witness ==
  /\ xpc = "done"
  /\ \E k \in 1 .. Len(dbContacts) :
       /\ SavedZip.excel[k].FilesCount = 2
       /\ \E a, b \in MetadataRowsOf(k) :
            /\ a # b
            /\ dbAttachments[a].file_name = dbAttachments[b].file_name
            /\ OutcomeOf(a) = "data"
            /\ OutcomeOf(b) # "data"

----------------------------------------------------------------------------
(* Properties of the column mapper, the normalizers and mapToContacts *)

\* sub occurs in s.
Contains(s, sub) ==
  \E k \in 0 .. Len(s) - Len(sub) : SubSeq(s, k + 1, k + Len(sub)) = sub

\* The eight fields of a contact.
FieldsOf(contact) == [f \in ContactFields |-> contact[f]]

\* A header that matches neither the synonym table nor the extra-notes
\* table.
Unmatched(key) ==
  normalizeColumnName(key) \notin (DOMAIN columnMappings) \cup extraNotesColumns

\* C16: a header resolves through its normalization key only: a header
\* that differs from another only in case, surrounding white space,
\* underscores and spaces resolves as the other does; normalizing a
\* normalized key changes nothing; and a header resolves to a contact field
\* exactly when its whole key is a synonym key, not when the key merely
\* contains one.
C16_HeaderResolvesByNormalizedKey ==
  mpc = "resolved" =>
    /\ out.fieldName = out.baseFieldName
    /\ normalizeColumnName(out.key) = out.key
    /\ out.key = normalizeColumnName(baseHeader)
    /\ out.fieldName \in ContactFields <=> out.key \in DOMAIN columnMappings
    /\ out.key \in DOMAIN columnMappings =>
         out.fieldName = columnMappings[out.key]
    /\ (/\ out.key \notin DOMAIN columnMappings
        /\ \E k \in DOMAIN columnMappings : Contains(out.key, k)) =>
         out.fieldName \notin ContactFields

C16_Witness ==
  /\ mpc = "resolved"
  \* "  Full_Name "
  /\ header = <<32, 32, 70, 117, 108, 108, 95, 78, 97, 109, 101, 32>>
  \* "fullname"
  /\ baseHeader = <<102, 117, 108, 108, 110, 97, 109, 101>>
  /\ out.key = baseHeader
  /\ out.fieldName = "name"
  /\ out.baseFieldName = "name"

C18_ExtraColumnsAddedToNotes ==
  mpc = "mapped" =>
    \A k \in 1 .. Len(sheetRows) :
      \A c \in 1 .. Len(sheetRows[k]) :
        LET cell == sheetRows[k][c]
        IN  (/\ normalizeColumnName(cell.key) \notin DOMAIN columnMappings
             /\ cell.value.t = "string"
             /\ Trim(cell.value.s) # <<>>) =>
              Contains(out[k].details, Trim(cell.value.s))

\* A number, or a string that writes a number, which is an integer 1 to 5.
IsOneToFive(v) ==
  \/ v.t = "number" /\ v.n \in {k * Unit : k \in 1 .. 5}
  \/ /\ v.t = "string"
     /\ Trim(v.s) # <<>>
     /\ DigitPrefix(Trim(v.s)) = Trim(v.s)
     /\ DigitsValue(Trim(v.s)) \in 1 .. 5

\* C19: the priority normalizer returns nothing or an integer 1 to 5: an
\* integer 1 to 5, as a number or as a numeric string, is returned as that
\* integer, and every other cellValue gives nothing.
C19_PriorityIsIntegerOneToFiveOrNothing ==
  mpc = "priority" =>
    /\ out \in {Absent} \cup {<<k * Unit>> : k \in 1 .. 5}
    /\ IsOneToFive(cellValue) =>
         out = <<(IF cellValue.t = "number" THEN cellValue.n
                  ELSE DigitsValue(Trim(cellValue.s)) * Unit)>>
    /\ ~IsOneToFive(cellValue) => out = Absent

\* C20: for a date literal YYYY-MM-DD of the calendar the date normalizer
\* returns the same string in every local time zone, and for "not a date"
\* it returns nothing.
C20_DateLiteralIsReturnedUnchanged ==
  (mpc = "date" /\ cellValue.t = "string") =>
    /\ IsIsoDate(cellValue.s) => out = cellValue.s
    \* "not a date"
    /\ cellValue.s = <<110, 111, 116, 32, 97, 32, 100, 97, 116, 101>> => out = Absent

\* The note fragment that a cell contributes, if any: the trimmed text of
\* a details-mapped column, or "<header>: <text>" of an extra-notes column.
FragmentsOf(cell) ==
  LET normalizedKey == normalizeColumnName(cell.key)
      text == Trim(StringOf(cell.value))
  IN  IF Falsy(cell.value) \/ text = <<>> THEN <<>>
      ELSE IF /\ normalizedKey \in DOMAIN columnMappings
              /\ columnMappings[normalizedKey] = "details"
        THEN <<text>>
      ELSE IF normalizedKey \in extraNotesColumns
        THEN <<Trim(cell.key) \o <<58, 32>> \o text>>
      ELSE <<>>

\* The note fragments of a row, in column order.
RECURSIVE Fragments(_)
Fragments(row) ==
  IF row = <<>> THEN <<>> ELSE FragmentsOf(row[1]) \o Fragments(Tail(row))

\* C21: detail-like columns accumulate: the details of a contact are the
\* newline-joined note fragments, the marker "[<SheetName>]" first when a
\* source sheet is given, then one fragment per non-empty details-mapped or
\* extra-notes column in column order; details is absent without fragment.
C21_DetailsAccumulateFragments ==
  mpc = "mapped" =>
    \A k \in 1 .. Len(sheetRows) :
      LET marker == IF sheetName # <<>>
                      THEN <<(<<91>> \o sheetName \o <<93>>)>> ELSE <<>>
          fragments == marker \o Fragments(sheetRows[k])
      IN  IF fragments = <<>>
            THEN out[k].details = Absent
            ELSE out[k].details = Join(fragments)

C21_Witness ==
  /\ mpc = "mapped"
  \* "Q1"
  /\ sheetName = <<81, 49>>
  \* "Notes", "hi"
  /\ sheetRows = << <<Cell(<<78, 111, 116, 101, 115>>, JsString(<<104, 105>>)),
          \* " Documents Provided", "yes"
          Cell(<<32, 68, 111, 99, 117, 109, 101, 110, 116, 115, 32, 80, 114, 111, 118, 105, 100, 101, 100>>, JsString(<<121, 101, 115>>))>> >>
  /\ out[1].details =
          \* "[Q1]", "hi", "Documents Provided: yes"
          <<91, 81, 49, 93>> \o <<10>> \o <<104, 105>> \o <<10>> \o <<68, 111, 99, 117, 109, 101, 110, 116, 115, 32, 80, 114, 111, 118, 105, 100, 101, 100, 58, 32, 121, 101, 115>>

\* The fields of a contact that hold one value.
ScalarFields == ContactFields \ {"details"}

\* A null, empty or zero cell.
EmptyOrZero(v) ==
  v \in {JsNull, JsString(<<>>), JsNumber(0), JsBoolean(FALSE)}

\* The columns of a row that resolve to field f and hold a truthy cell.
TruthyColumnsOf(row, f) ==
  {c \in 1 .. Len(row) :
     /\ ~EmptyOrZero(row[c].value)
     /\ FieldNameOf(normalizeColumnName(row[c].key)) = f}

\* What a cell gives for field f.
NormalizedFor(f, v, tz) ==
  CASE f = "last_interaction_date" -> parseExcelDate(v, tz)
    [] f = "priority" -> parsePriority(v)
    [] OTHER -> Trim(StringOf(v))

Last(S) == CHOOSE c \in S : \A d \in S : d <= c

\* C30: when several headers of a row resolve to the same scalar field, the
\* field is what the last of them in column order with a truthy cell gives,
\* even when that is nothing; a null, empty or zero cell changes nothing.
C30_LastTruthyColumnWins ==
  mpc = "mapped" =>
    \A k \in 1 .. Len(sheetRows) :
      \A f \in ScalarFields :
        LET columns == TruthyColumnsOf(sheetRows[k], f)
        IN  IF columns = {}
              THEN out[k][f] = EmptyContact[f]
              ELSE out[k][f] =
                     NormalizedFor(f, sheetRows[k][Last(columns)].value,
                                   timeZone)

C30_Witness ==
  /\ mpc = "mapped"
  \* "Priorty", "2"
  /\ sheetRows = << <<Cell(<<80, 114, 105, 111, 114, 116, 121>>, JsString(<<50>>)),
          \* "Rank", "abc"
          Cell(<<82, 97, 110, 107>>, JsString(<<97, 98, 99>>))>> >>
  /\ out[1].priority = Absent

----------------------------------------------------------------------------
(* Sheet discovery and the import dialog *)

CaseInsensitiveEqual(a, b) == ToLowerCase(a) = ToLowerCase(b)

\* A sheet has a data row when a row of its grid holds a cell.
HasDataRow(sheet) ==
  \E r \in DOMAIN sheet.grid :
    \E c \in DOMAIN sheet.grid[r] : sheet.grid[r][c] # EmptyCell

Qualifies(sheet) ==
  \* "definitions"
  /\ ~CaseInsensitiveEqual(sheet.name, <<100, 101, 102, 105, 110, 105, 116, 105, 111, 110, 115>>)
  /\ HasDataRow(sheet)

\* The names of the qualifying sheets of a workbook, in workbook order.
QualifyingNames(workbook) ==
  LET qualifying == SelectSeq(workbook, Qualifies)
  IN  [k \in 1 .. Len(qualifying) |-> qualifying[k].name]

\* The name of every contact of the definitions sheets.
\* "Zed"
DefinitionsContact == <<90, 101, 100>>

\* C22: getExcelSheets and parseAllSheets return, in workbook order, exactly
\* the sheets whose name is not "definitions" in any letter case and that
\* have at least one data row; a definitions sheet is never offered for
\* selection and its rows never reach the preview or importContacts.
C22_DiscoveryReturnsQualifyingSheets ==
  /\ \A f \in userFiles :
       LET infos == getExcelSheets(f.workbook)
           parsed == parseAllSheets(f.workbook)
       IN  /\ [k \in 1 .. Len(infos) |-> infos[k].name]
                = QualifyingNames(f.workbook)
           /\ [k \in 1 .. Len(parsed) |-> parsed[k].sheetName]
                = QualifyingNames(f.workbook)
  /\ \A k \in DOMAIN sheets :
       \* "definitions"
       ~CaseInsensitiveEqual(sheets[k].name, <<100, 101, 102, 105, 110, 105, 116, 105, 111, 110, 115>>)
  /\ \A k \in DOMAIN previewData : previewData[k].name # DefinitionsContact
  /\ \A p \in BagToSet(awaited) :
       \A k \in DOMAIN p.contacts : p.contacts[k].name # DefinitionsContact

\* The workbook "Q2", "DEFINITIONS", "Q1" was selected: two sheets are
\* offered, and the preview of both holds their three rows.
C22_Witness ==
  /\ step = "preview"
  /\ file # <<>>
  /\ file[1].workbook = <<Q2, DEFINITIONS, Q1>>
  \* "Q2", "Q1"
  /\ [k \in 1 .. Len(sheets) |-> sheets[k].name] = <<<<81, 50>>, <<81, 49>>>>
  /\ Len(previewData) = 3

\* The details of a contact start with the name of a sheet in brackets.
StartsWithMarker(details, title) ==
  /\ Len(details) >= Len(title) + 2
  /\ SubSeq(details, 1, Len(title) + 2) = <<91>> \o title \o <<93>>

\* The qualifying sheets of the file selected.
Remaining == IF file = <<>> THEN <<>> ELSE QualifyingNames(file[1].workbook)

\* The promise that a step of the dialog settles.
SettledBy(p) == p \in BagToSet(awaited) /\ awaited' = Settle(awaited, p)

\* A step that takes the dialog to the preview without sheet selection.
DirectToPreview ==
  /\ step = "upload"
  /\ Len(Remaining) = 1
  /\ \E p \in BagToSet(awaited) :
       /\ SettledBy(p)
       /\ p.kind = "parseExcelFile"
       /\ p.file = file[1]

\* A step that takes the dialog to the preview of the sheets confirmed.
ConfirmedToPreview ==
  /\ step = "select-sheets"
  /\ Len(Remaining) > 1
  /\ \E p \in BagToSet(awaited) :
       /\ SettledBy(p)
       /\ p.kind = "parseAllSheets"
       /\ p.file = file[1]
       /\ p.selection # <<>>
       /\ \A k \in DOMAIN previewData' :
            \E n \in DOMAIN p.selection :
              StartsWithMarker(previewData'[k].details, p.selection[n])

\* C23: after a valid file is selected, a file with exactly one qualifying
\* sheet takes the dialog from 'upload' directly to 'preview'; a file with
\* several takes it to 'select-sheets' with every sheet selected, and from
\* there to 'preview' only by a confirmation of a selection that is not
\* empty, with rows of the confirmed sheets only; a file with none leaves
\* it on 'upload' with an error.  The steps are those of the open dialog.
C23_SheetCountDecidesTheRoute ==
  [][/\ (isOpen /\ step # "preview" /\ step' = "preview")
          => (DirectToPreview \/ ConfirmedToPreview)
     /\ (isOpen /\ step = "upload" /\ step' = "select-sheets")
          => /\ Len(Remaining) > 1
             /\ selectedSheets' = Remaining
     /\ (isOpen /\ step' = "select-sheets") => Len(Remaining) > 1
     /\ (isOpen /\ file # <<>> /\ file[1].readable /\ Len(Remaining) = 0
           /\ \E p \in BagToSet(awaited) :
                SettledBy(p) /\ p.kind = "getExcelSheets"
                  /\ p.file = file[1])
          => step' = "upload" /\ wizardError' = NoSheetsMsg]_vars

\* The number of data rows of a sheet.
DataRowCount(sheet) ==
  Cardinality({r \in DOMAIN sheet.grid :
                 \E c \in DOMAIN sheet.grid[r] : sheet.grid[r][c] # EmptyCell})

\* The name of each sheet of a list, once per data row of the sheet.
RECURSIVE MarkersOf(_)
MarkersOf(sheetList) ==
  IF sheetList = <<>> THEN <<>>
  ELSE [k \in 1 .. DataRowCount(sheetList[1]) |-> sheetList[1].name]
       \o MarkersOf(Tail(sheetList))

\* The sheets of a workbook that a confirmation selects, in workbook order.
SelectedOf(workbook, selection) ==
  SelectSeq(workbook,
            LAMBDA s : Qualifies(s) /\ Includes(selection, s.name))

\* C24: the preview that a confirmation builds has one contact per data row
\* of the selected sheets of the file, sheet after sheet in workbook order
\* whatever the order of the selection, and the details of every contact
\* start with the name of its sheet in brackets.
C24_CombinedPreviewFollowsSheetOrder ==
  [][\A p \in BagToSet(awaited) :
       (SettledBy(p) /\ p.kind = "parseAllSheets" /\ p.file.readable)
         => LET markers == MarkersOf(SelectedOf(p.file.workbook, p.selection))
            IN  /\ Len(previewData') = Len(markers)
                /\ \A k \in DOMAIN markers :
                     StartsWithMarker(previewData'[k].details, markers[k])]_vars

\* Of the workbook "Q2", "DEFINITIONS", "Q1" the user ticked Q1 before Q2:
\* the preview holds the row of Q2, then the two rows of Q1.
C24_Witness ==
  /\ step = "preview"
  /\ file # <<>>
  /\ file[1].workbook = <<Q2, DEFINITIONS, Q1>>
  \* "Q1", "Q2"
  /\ selectedSheets = <<<<81, 49>>, <<81, 50>>>>
  /\ Len(previewData) = 3
  \* "Q2"
  /\ StartsWithMarker(previewData[1].details, <<81, 50>>)
  \* "Q1"
  /\ StartsWithMarker(previewData[2].details, <<81, 49>>)
  \* "Q1"
  /\ StartsWithMarker(previewData[3].details, <<81, 49>>)

\* The complete step is rendered: the heading 'Import complete', the check
\* mark and the counts of `result`.
ShownAsComplete == isOpen /\ step = "complete" /\ wizardResult # <<>>

\* The ImportResult of a run that wrote nothing: no user, or no contact
\* with a name.
TerminalFailure(res) ==
  /\ res.imported = 0
  /\ res.errors \in {<<NotAuthenticatedMsg>>, <<NoValidContactsMsg>>}

\* C25: the dialog tells three outcomes of a run apart: a terminal failure
\* (not authenticated, no valid contact) shows its message and is not shown
\* as a completed import; a partial success shows the counts and the error
\* strings; a full success shows the counts and no error.
C25_TerminalFailureIsNotShownAsComplete ==
  ShownAsComplete => ~TerminalFailure(wizardResult[1])

\* An importContacts promise of handleImport has not settled yet.
ImportInFlight == \E p \in BagToSet(awaited) : p.kind = "importContacts"

\* C29: `importing` is true from the start of handleImport until its
\* importContacts promise settles, and false afterwards whatever the
\* outcome; while it is true handleClose changes nothing, so that a run in
\* flight is never reset and the dialog is never closed during it.
C29_RunInFlightIsNeverResetOrClosed ==
  /\ importing <=> ImportInFlight
  /\ ImportInFlight => isOpen

----------------------------------------------------------------------------
(* importContacts and the rows already stored *)

IsPrefix(s, t) == Len(s) <= Len(t) /\ SubSeq(t, 1, Len(s)) = s

\* A stored row without the id the table gave it.
WithoutId(row) == [f \in DOMAIN row \ {"id"} |-> row[f]]

\* The rows of the insert requests that were replied to without error.
RECURSIVE AcceptedRows(_, _)
AcceptedRows(requests, errors) ==
  IF requests = <<>> \/ errors = <<>> THEN <<>>
  ELSE (IF errors[1] = Null THEN requests[1].rows ELSE <<>>)
       \o AcceptedRows(Tail(requests), Tail(errors))

\* The rows stored since importContacts was called.
StoredSince ==
  SubSeq(storedContacts, Len(storedBefore) + 1, Len(storedContacts))

\* C28: importContacts only inserts: every call it makes on the storage is
\* getUser or insert, the rows stored before the run stay as they were, the
\* rows added are those of the accepted insert requests, and a run on rows
\* that an earlier run has stored stores them a second time.
C28_ImportOnlyInserts ==
  /\ \A k \in DOMAIN calls : calls[k].kind \in {"getUser", "insert", "progress"}
  /\ IsPrefix(storedBefore, storedContacts)
  /\ [k \in 1 .. Len(StoredSince) |-> WithoutId(StoredSince[k])]
       = AcceptedRows(InsertCalls, replies)
  /\ \A a, b \in DOMAIN storedContacts :
       a # b => storedContacts[a].id # storedContacts[b].id
  /\ (ipc = "done" /\ storedBefore # <<>> /\ result.success)
       => /\ Len(storedContacts) = 2 * Len(storedBefore)
          /\ \A k \in DOMAIN storedBefore :
               WithoutId(storedContacts[Len(storedBefore) + k])
                 = WithoutId(storedBefore[k])

\* A run on three rows that an earlier run has stored ended with success:
\* the table holds six rows.
C28_Witness ==
  /\ ipc = "done"
  /\ result.success
  /\ Len(storedBefore) = 3
  /\ Len(storedContacts) = 6

----------------------------------------------------------------------------
(* Attachments: binaries and metadata rows *)

\* No handler of the contact page is running.
Quiescent == fpc \in {"idle", "left"}

\* C26: after any sequence of uploads, attachment deletions and contact
\* deletions whose storage and database steps may fail, the bucket holds
\* no binary without its metadata row and the table no metadata row
\* without its binary.
C26_NoOrphanedBinaryOrRow ==
  Quiescent => binaries = PathsOf(attachmentRows)

----------------------------------------------------------------------------
(* Row level security *)

\* C27: under the policies of the schema no contact, attachment row or
\* stored file created by one authenticated user is read, updated or
\* deleted by another one.
C27_NoAccessToAnotherUsersData ==
  (granted # <<>> /\ granted.command \in {"SELECT", "UPDATE", "DELETE"})
    => granted.row.user_id = granted.by

====
